---- MODULE Spec2Model ----
(***************************************************************************)
(* Topic collection, de-duplication and priority scoring of the            *)
(* crypto-article-system: TopicManager of backend/src/topic_collector.py. *)
(*                                                                         *)
(* Strings are sequences of one-character strings, so that str.lower()    *)
(* and str.split() are computed character by character.  Times are        *)
(* integers counting clock units (UnitsPerHour units per hour), scores    *)
(* are exact rationals held as integers in units of 1/ScoreScale; float   *)
(* rounding is not modelled.                                               *)
(***************************************************************************)
EXTENDS Integers, Sequences, FiniteSets, TLC

VARIABLES topics, processed_titles, topic_history, now, call, ret

\* two add_topics calls in flight on one manager (each call's position in
\* the loop), and whether two calls have ever been in flight together
VARIABLES writers, overlapped

\* TopicCollectionScheduler of scheduler.py: its fields, and the position of
\* each invocation of _collect_topics_job
VARIABLES is_collecting, collection_count, error_count, last_collection_time, jobs

\* the management interface of api_server.py: the titles of the topics that
\* delete_topic has removed from the store (a record of what was done, the
\* program keeps no such list)
VARIABLES deleted

\* ArticlePipeline of article_pipeline.py: the fields of its ArticleQuota and
\* the titles it has generated an article for
VARIABLES daily_count, hourly_count, last_reset_date, last_reset_hour, generation_history,
          processed_topics

raceVars == <<writers, overlapped>>
schedVars == <<is_collecting, collection_count, error_count, last_collection_time, jobs>>
manageVars == <<deleted>>
pipeVars == <<daily_count, hourly_count, last_reset_date, last_reset_hour, generation_history,
              processed_topics>>

vars == <<topics, processed_titles, topic_history, now, call, ret, raceVars, schedVars, manageVars,
          pipeVars>>

(***************************************************************************)
(* Bounds of the model.                                                    *)
(***************************************************************************)
\* clock resolution: units per hour (10 = steps of six minutes)
UnitsPerHour == 10
\* add_topics is not called once the store holds this many topics
MaxTopics == 2
\* the clock stops after this many Tick steps
MaxTicks == 1
\* invocations of the scheduler's job that can be in flight together
MaxJobs == 2

(***************************************************************************)
(* Program constants.                                                      *)
(***************************************************************************)
\* time_decay = max(0.3, 1 - hours_old / 72): the window and the floor
DecayWindowHours == 72
DecayFloorTenths == 3
\* score += len(keywords) * 2 ; score += len(coins) * 5
KeywordBonus == 2
CoinBonus == 5
\* report: get_top_topics(10); default min_score of get_top_topics
ReportTopCount == 10
DefaultMinScore == 10

\* one score point, in score units (a multiple of 10 and of the decay window)
ScoreScale == 10 * DecayWindowHours * UnitsPerHour
\* the decay window in clock units
DecayWindow == DecayWindowHours * UnitsPerHour
\* the clock advances by this much per Tick: 35% of the window (25.2 h), so
\* that two ticks reach the age at which the decay meets its floor
TickLen == (7 * DecayWindow) \div 20

(***************************************************************************)
(* Strings: str.lower() and str.split().                                   *)
(***************************************************************************)
UpperChars == <<"A","B","C","D","E","F","G","H","I","J","K","L","M","N","O","P","Q","R","S","T","U","V","W","X","Y","Z">>
LowerChars == <<"a","b","c","d","e","f","g","h","i","j","k","l","m","n","o","p","q","r","s","t","u","v","w","x","y","z">>

\* the case mapping of the cased letters
CaseFold == [ch \in {UpperChars[i] : i \in 1..Len(UpperChars)} |-> LowerChars[CHOOSE i \in 1..Len(UpperChars) : UpperChars[i] = ch]]

\* str.lower() on one character: cased letters fold, everything else stays
LowerChar(ch) == IF ch \in DOMAIN CaseFold THEN CaseFold[ch] ELSE ch

\* str.lower()
Lower(s) == [i \in 1..Len(s) |-> LowerChar(s[i])]

\* the characters str.split() with no argument splits on
IsSpace(ch) == ch \in {" ", "\t", "\n"}

RECURSIVE SplitFrom(_, _, _)
\* scan s from position i with the current word cur; the set of words found
SplitFrom(s, i, cur) ==
    IF i > Len(s)
    THEN IF cur = <<>> THEN {} ELSE {cur}
    ELSE IF IsSpace(s[i])
         THEN (IF cur = <<>> THEN {} ELSE {cur}) \cup SplitFrom(s, i + 1, <<>>)
         ELSE SplitFrom(s, i + 1, Append(cur, s[i]))

\* set(text.split()): the set of whitespace-separated words of a string
Words(s) == SplitFrom(s, 1, <<>>)

(***************************************************************************)
(* Enumerations.                                                           *)
(***************************************************************************)
TopicSource == {"rss_feed", "price_api", "social_media", "news_api", "onchain_data"}

TopicPriority == {"URGENT", "HIGH", "MEDIUM", "LOW", "SCHEDULED"}

\* faulty variant: the base scores of the category-driven scorer (90/70/50/20)
priority_scores_by_category == [p \in TopicPriority |-> CASE p = "URGENT" -> 90 [] p = "HIGH" -> 70 [] p = "MEDIUM" -> 50 [] p = "LOW" -> 20 [] p = "SCHEDULED" -> 20]

\* priority_scores of _calculate_score, in points
priority_scores == [p \in TopicPriority |-> CASE p = "URGENT" -> 100 [] p = "HIGH" -> 80 [] p = "MEDIUM" -> 60 [] p = "LOW" -> 40 [] p = "SCHEDULED" -> 20]

\* CollectedTopic (source_url, summary and data are carried along unread by
\* the TopicManager and are left out)
CollectedTopic(title, source, priority, coins, keywords, collected_at, score) ==
    [title |-> title, source |-> source, priority |-> priority, coins |-> coins,
     keywords |-> keywords, collected_at |-> collected_at, score |-> score]

(***************************************************************************)
(* TopicManager: duplicate check.                                          *)
(***************************************************************************)
\* faulty variant: the overlap is divided by the smaller word set, not by the union
_calculate_similarity_overlap(text1, text2) ==
    LET words1 == Words(text1)
        words2 == Words(text2)
    IN IF words1 = {} \/ words2 = {}
       THEN <<0, 1>>
       ELSE <<Cardinality(words1 \cap words2), IF Cardinality(words1) < Cardinality(words2) THEN Cardinality(words1) ELSE Cardinality(words2)>>

\* _calculate_similarity: |words1 & words2| / |words1 | words2| as the pair
\* <<numerator, denominator>>, 0.0 (= <<0, 1>>) when either set is empty
_calculate_similarity(text1, text2) ==
    LET words1 == Words(text1)
        words2 == Words(text2)
    IN IF words1 = {} \/ words2 = {}
       THEN <<0, 1>>
       ELSE <<Cardinality(words1 \cap words2), Cardinality(words1 \cup words2)>>

\* faulty variant: the threshold taken inclusively (similarity >= 0.8)
ExceedsThresholdInclusive(sim) == 5 * sim[1] >= 4 * sim[2]

\* similarity > 0.8 on the pair: num/den > 4/5
ExceedsThreshold(sim) == 5 * sim[1] > 4 * sim[2]

\* faulty variant: the candidate's title is compared as written, without lower()
_is_duplicate_case_sensitive(seen, topic) ==
    \/ topic.title \in seen
    \/ \E processed_title \in seen :
         ExceedsThreshold(_calculate_similarity(topic.title, processed_title))

\* _is_duplicate against the seen-title set `seen`
_is_duplicate(seen, topic) ==
    LET title_lower == Lower(topic.title)
    IN \/ title_lower \in seen
       \/ \E processed_title \in seen :
            ExceedsThreshold(_calculate_similarity(title_lower, processed_title))

(***************************************************************************)
(* TopicManager: score (Strategy A).                                       *)
(***************************************************************************)
Max(a, b) == IF a >= b THEN a ELSE b

\* faulty variant: max(0, 1 - hours_old / 24), the decay of src/src/topic_collector.py
time_decay_one_day(hours_old) == Max(0, 10 * (DecayWindow - 3 * hours_old))

\* faulty variant: the floor of 0.3 is missing
time_decay_unfloored(hours_old) == 10 * (DecayWindow - hours_old)

\* faulty variant: the age is added, max(0.3, 1 + hours_old / 72)
time_decay_growing(hours_old) == Max(DecayFloorTenths * DecayWindow, 10 * (DecayWindow + hours_old))

\* max(0.3, 1 - hours_old / 72) in units of 1/ScoreScale, hours_old in clock
\* units (negative when collected_at is later than the clock)
time_decay(hours_old) == Max(DecayFloorTenths * DecayWindow, 10 * (DecayWindow - hours_old))

\* _calculate_score at clock reading `clock`, in score units
_calculate_score(topic, clock) ==
    LET hours_old == clock - topic.collected_at
        base == priority_scores[topic.priority] * time_decay(hours_old)
        bonus == Len(topic.keywords) * KeywordBonus * ScoreScale + Len(topic.coins) * CoinBonus * ScoreScale
    IN base + bonus + (IF topic.score > 0 THEN topic.score \div 10 ELSE 0)

(***************************************************************************)
(* TopicManager: add_topics.                                               *)
(***************************************************************************)
\* the dict assignment topic_history[key] = value
DictSet(d, key, value) == [k \in DOMAIN d \cup {key} |-> IF k = key THEN value ELSE d[k]]

\* faulty variant: every insertion re-scores the topics already retained
AddOneRescoring(m, topic, clock) ==
    IF _is_duplicate(m.processed_titles, topic)
    THEN m
    ELSE [topics |-> [i \in 1..(Len(m.topics) + 1) |->
                        IF i <= Len(m.topics)
                        THEN [m.topics[i] EXCEPT !.score = _calculate_score(m.topics[i], clock)]
                        ELSE [topic EXCEPT !.score = _calculate_score(topic, clock)]],
          processed_titles |-> m.processed_titles \cup {Lower(topic.title)},
          topic_history |-> DictSet(m.topic_history, Lower(topic.title), topic.collected_at)]

\* faulty variant: a retained title is not entered into processed_titles
AddOneUnregistered(m, topic, clock) ==
    IF _is_duplicate(m.processed_titles, topic)
    THEN m
    ELSE [topics |-> Append(m.topics, [topic EXCEPT !.score = _calculate_score(topic, clock)]),
          processed_titles |-> m.processed_titles,
          topic_history |-> DictSet(m.topic_history, Lower(topic.title), topic.collected_at)]

\* faulty variant: a rejected candidate is merged into the first-seen topic,
\* whose entry in topic_history takes the candidate's collected_at
AddOneMerging(m, topic, clock) ==
    IF _is_duplicate(m.processed_titles, topic)
    THEN [m EXCEPT !.topic_history = DictSet(m.topic_history, Lower(topic.title), topic.collected_at)]
    ELSE [topics |-> Append(m.topics, [topic EXCEPT !.score = _calculate_score(topic, clock)]),
          processed_titles |-> m.processed_titles \cup {Lower(topic.title)},
          topic_history |-> DictSet(m.topic_history, Lower(topic.title), topic.collected_at)]

\* faulty variant: a retained topic is stamped with the time of its insertion
AddOneStamping(m, topic, clock) ==
    IF _is_duplicate(m.processed_titles, topic)
    THEN m
    ELSE [topics |-> Append(m.topics, [topic EXCEPT !.score = _calculate_score(topic, clock),
                                                    !.collected_at = clock]),
          processed_titles |-> m.processed_titles \cup {Lower(topic.title)},
          topic_history |-> DictSet(m.topic_history, Lower(topic.title), topic.collected_at)]

\* faulty variant: the title is registered as written, without lower()
AddOneRegisteringAsWritten(m, topic, clock) ==
    IF _is_duplicate(m.processed_titles, topic)
    THEN m
    ELSE [topics |-> Append(m.topics, [topic EXCEPT !.score = _calculate_score(topic, clock)]),
          processed_titles |-> m.processed_titles \cup {topic.title},
          topic_history |-> DictSet(m.topic_history, topic.title, topic.collected_at)]

\* one iteration of the loop of add_topics on the manager state m
AddOne(m, topic, clock) ==
    IF _is_duplicate(m.processed_titles, topic)
    THEN m
    ELSE [topics |-> Append(m.topics, [topic EXCEPT !.score = _calculate_score(topic, clock)]),
          processed_titles |-> m.processed_titles \cup {Lower(topic.title)},
          topic_history |-> DictSet(m.topic_history, Lower(topic.title), topic.collected_at)]

RECURSIVE AddLoop(_, _, _)
\* the loop of add_topics over the list `batch`
AddLoop(m, batch, clock) ==
    IF batch = <<>> THEN m
    ELSE AddLoop(AddOne(m, Head(batch), clock), Tail(batch), clock)

RECURSIVE CandidatesAfter(_, _, _)
\* the objects of the list `batch` as the caller holds them after add_topics:
\* the loop assigns the score of the topics it retains and leaves a topic it
\* passes over (continue) as it was
CandidatesAfter(m, batch, clock) ==
    IF batch = <<>> THEN <<>>
    ELSE LET topic == Head(batch)
         IN <<IF _is_duplicate(m.processed_titles, topic) THEN topic
              ELSE [topic EXCEPT !.score = _calculate_score(topic, clock)]>>
            \o CandidatesAfter(AddOne(m, topic, clock), Tail(batch), clock)

\* the manager's fields as one record
Manager == [topics |-> topics, processed_titles |-> processed_titles, topic_history |-> topic_history]

NoCall == [op |-> "none"]

(***************************************************************************)
(* TopicManager: retrieval.                                                *)
(***************************************************************************)
\* faulty variant: the sort ascends (reverse=True forgotten)
RECURSIVE InsertByScoreAscending(_, _)
InsertByScoreAscending(sorted, x) ==
    IF sorted = <<>> THEN <<x>>
    ELSE IF Head(sorted).score <= x.score
         THEN <<Head(sorted)>> \o InsertByScoreAscending(Tail(sorted), x)
         ELSE <<x>> \o sorted

\* faulty variant: x goes in front of the elements with its score, so equal
\* scores come out in reverse insertion order
RECURSIVE InsertByScoreInFront(_, _)
InsertByScoreInFront(sorted, x) ==
    IF sorted = <<>> THEN <<x>>
    ELSE IF Head(sorted).score > x.score
         THEN <<Head(sorted)>> \o InsertByScoreInFront(Tail(sorted), x)
         ELSE <<x>> \o sorted

\* place x into a list sorted by descending score, behind every element whose
\* score is at least x's: equal scores keep their order (sorted() is stable,
\* also with reverse=True)
RECURSIVE InsertByScore(_, _)
InsertByScore(sorted, x) ==
    IF sorted = <<>> THEN <<x>>
    ELSE IF Head(sorted).score >= x.score
         THEN <<Head(sorted)>> \o InsertByScore(Tail(sorted), x)
         ELSE <<x>> \o sorted

RECURSIVE SortedByScore(_)
\* sorted(lst, key=lambda x: x.score, reverse=True)
SortedByScore(lst) ==
    IF lst = <<>> THEN <<>>
    ELSE InsertByScore(SortedByScore(SubSeq(lst, 1, Len(lst) - 1)), lst[Len(lst)])

\* the slice lst[:count]; a negative count drops that many from the end
SliceTo(lst, count) ==
    IF count >= 0
    THEN SubSeq(lst, 1, IF count < Len(lst) THEN count ELSE Len(lst))
    ELSE SubSeq(lst, 1, Max(0, Len(lst) + count))

\* get_top_topics(count, min_score) on the list ts
get_top_topics(ts, count, min_score) ==
    LET keep(t) == t.score >= min_score
    IN SliceTo(SortedByScore(SelectSeq(ts, keep)), count)

\* faulty variant: only the first coin of a topic is compared
get_topics_by_coin_first(ts, coin_symbol) ==
    LET keep(t) == t.coins # <<>> /\ t.coins[1] = coin_symbol
    IN SelectSeq(ts, keep)

\* get_topics_by_coin(coin_symbol) on the list ts
get_topics_by_coin(ts, coin_symbol) ==
    LET keep(t) == \E i \in 1..Len(t.coins) : t.coins[i] = coin_symbol
    IN SelectSeq(ts, keep)

\* faulty variant: the counts are assigned, not incremented, so a priority
\* or source that occurs again still counts one
generate_topic_report_assigning(ts) ==
    [total |-> Len(ts),
     priority_count |-> [p \in TopicPriority |-> IF \E i \in 1..Len(ts) : ts[i].priority = p THEN 1 ELSE 0],
     source_count |-> [s \in TopicSource |-> IF \E i \in 1..Len(ts) : ts[i].source = s THEN 1 ELSE 0],
     top_topics |-> get_top_topics(ts, ReportTopCount, DefaultMinScore * ScoreScale)]

\* generate_topic_report on the list ts: the numbers the report prints
generate_topic_report(ts) ==
    [total |-> Len(ts),
     priority_count |-> [p \in TopicPriority |-> Cardinality({i \in 1..Len(ts) : ts[i].priority = p})],
     source_count |-> [s \in TopicSource |-> Cardinality({i \in 1..Len(ts) : ts[i].source = s})],
     top_topics |-> get_top_topics(ts, ReportTopCount, DefaultMinScore * ScoreScale)]

\* TopicPriority.<member>.value
TopicPriority_value == [p \in TopicPriority |-> CASE p = "URGENT" -> 5 [] p = "HIGH" -> 4 [] p = "MEDIUM" -> 3 [] p = "LOW" -> 2 [] p = "SCHEDULED" -> 1]

\* TopicSource.<member>.value (a member of TopicSource is written here by
\* its value, which is a string)
TopicSource_value == [s \in TopicSource |-> s]

\* the JSON values json.dump writes: a string, a number
JsonStr(s) == [str |-> s]
JsonInt(n) == [int |-> n]

\* save_topics: the list of objects handed to json.dump for the list ts
\* (source_url, summary and data are not modelled)
save_topics(ts) ==
    [i \in 1..Len(ts) |->
        [title |-> ts[i].title,
         source |-> JsonStr(TopicSource_value[ts[i].source]),
         priority |-> JsonInt(TopicPriority_value[ts[i].priority]),
         coins |-> ts[i].coins,
         keywords |-> ts[i].keywords,
         collected_at |-> JsonStr(ToString(ts[i].collected_at)),
         score |-> ts[i].score]]

(***************************************************************************)
(* Inputs: the titles and topics the collectors hand to add_topics.        *)
(***************************************************************************)
TitleSurges == <<"B","i","t","c","o","i","n"," ","s","u","r","g","e","s"," ","1","0","%">>
TitleSurgesCaps == <<"B","I","T","C","O","I","N"," ","s","u","r","g","e","s"," ","1","0","%">>
TitleSurgesBy == <<"B","i","t","c","o","i","n"," ","s","u","r","g","e","s"," ","b","y"," ","1","0","%">>
TitleSurgesByNow == TitleSurgesBy \o <<" ","n","o","w">>
TitleSurgesByNowUp == TitleSurgesByNow \o <<" ","u","p">>

\* "Bitcoin surges 10%", "BITCOIN surges 10%", "Bitcoin surges by 10%",
\* "Bitcoin surges by 10% now", "Bitcoin surges by 10% now up": 3, 3, 4, 5 and
\* 6 words, each a superset of the one before
Titles == {TitleSurges, TitleSurgesCaps, TitleSurgesBy, TitleSurgesByNow, TitleSurgesByNowUp}

\* the fields of a CollectedTopic besides its title, as the caller of
\* add_topics fills them: age is clock - collected_at when the topic is
\* handed over, score the signal it carries then
Profiles ==
    { [source |-> "rss_feed", priority |-> "URGENT", coins |-> <<"ETH", "BTC">>, keywords |-> <<>>, age |-> 0, score |-> 0],
      [source |-> "price_api", priority |-> "LOW", coins |-> <<>>, keywords |-> <<"market">>, age |-> DecayWindow, score |-> 0] }

\* the topics handed to add_topics at clock reading `clock`
Candidates(clock) ==
    { CollectedTopic(t, p.source, p.priority, p.coins, p.keywords, clock - p.age, p.score) : t \in Titles, p \in Profiles }

\* the lists handed to one add_topics call: one candidate, or two
Batches(clock) ==
    { <<c>> : c \in Candidates(clock) } \cup { <<c, d>> : c \in Candidates(clock), d \in Candidates(clock) }

(***************************************************************************)
(* Construction.                                                           *)
(***************************************************************************)
\* mock_topics of _generate_mock_topics, its first entry (a title without
\* cased letters or whitespace, written as one opaque character)
MockTable == << [title |-> <<"jp-bitcoin-60000">>, coins |-> <<"BTC">>, priority |-> "URGENT"] >>

\* the random draws of one entry: hours_ago = random.uniform(0, 24) (its two
\* ends) and source = random.choice(sources)
MockDraws == { [hours_ago |-> 0, source |-> "rss_feed"], [hours_ago |-> 24 * UnitsPerHour, source |-> "news_api"] }

RECURSIVE MockLoop(_, _, _)
\* the loop of _generate_mock_topics over entries i.., with the random draws
\* draws[i]
MockLoop(m, i, draws) ==
    IF i > Len(MockTable) THEN m
    ELSE LET e == MockTable[i]
             t0 == CollectedTopic(e.title, draws[i].source, e.priority, e.coins, <<>>, 0 - draws[i].hours_ago, 0)
             t == [t0 EXCEPT !.score = _calculate_score(t0, 0)]
         IN MockLoop([topics |-> Append(m.topics, t),
                      processed_titles |-> m.processed_titles \cup {Lower(t.title)},
                      topic_history |-> DictSet(m.topic_history, Lower(t.title), t.collected_at)],
                     i + 1, draws)

\* TopicManager.__init__ before the mock topics are generated
EmptyManager == [topics |-> <<>>, processed_titles |-> {}, topic_history |-> <<>>]

\* the callers of add_topics that may be in flight together
Writers == {1, 2}

\* a caller outside add_topics
IdleWriter == [pc |-> "idle", batch |-> <<>>]

\* no add_topics call is in flight, none has been
NoWriters ==
    /\ writers = [w \in Writers |-> IdleWriter]
    /\ overlapped = FALSE

\* last_collection_time = None
NoTime == -1

\* the invocations of _collect_topics_job that may be in flight together
\* (the awaited first run of start() and the interval trigger's runs)
Jobs == 1..MaxJobs

\* an invocation that has not started or has returned
IdleJob == [pc |-> "idle", start_time |-> NoTime]

\* TopicCollectionScheduler.__init__
SchedulerInit ==
    /\ is_collecting = FALSE
    /\ collection_count = 0
    /\ error_count = 0
    /\ last_collection_time = NoTime
    /\ jobs = [j \in Jobs |-> IdleJob]

\* no topic has been deleted
ManageInit == deleted = {}

\* ArticleQuota.__init__ and ArticlePipeline.__init__ at clock reading 0
PipelineInit ==
    /\ daily_count = 0
    /\ hourly_count = 0
    /\ last_reset_date = 0
    /\ last_reset_hour = 0
    /\ generation_history = <<>>
    /\ processed_topics = {}

\* the manager after construction: empty (src/src/topic_collector.py), or
\* holding the mock topics (backend/src/topic_collector.py)
Init ==
    /\ now = 0
    /\ call = NoCall
    /\ ret = <<>>
    /\ NoWriters
    /\ SchedulerInit
    /\ ManageInit
    /\ PipelineInit
    /\ \E m \in {EmptyManager} \cup { MockLoop(EmptyManager, 1, d) : d \in [1..Len(MockTable) -> MockDraws] } :
         /\ topics = m.topics
         /\ processed_titles = m.processed_titles
         /\ topic_history = m.topic_history

(***************************************************************************)
(* Operations.                                                             *)
(***************************************************************************)
Call(op, batch, count, min_score, coin) ==
    [op |-> op, batch |-> batch, count |-> count, min_score |-> min_score, coin |-> coin,
     len_before |-> Len(topics)]

\* add_topics(batch); it returns None, and ret holds the caller's list after
\* the call
add_topics(batch) ==
    /\ \E m \in {AddLoop(Manager, batch, now)} :
          /\ topics' = m.topics
          /\ processed_titles' = m.processed_titles
          /\ topic_history' = m.topic_history
    /\ call' = Call("add_topics", batch, 0, 0, "")
    /\ ret' = CandidatesAfter(Manager, batch, now)
    /\ UNCHANGED <<now, raceVars, schedVars, manageVars, pipeVars>>

\* add_topics(batch), called while the store has room for the whole batch
AddTopics(batch) ==
    /\ Len(topics) + Len(batch) <= MaxTopics
    /\ add_topics(batch)

\* the counts and thresholds the queries are called with
Counts == {-1, 0, 1, 2, ReportTopCount}
MinScores == {0, DefaultMinScore * ScoreScale, 100 * ScoreScale}
Coins == {"BTC", "ETH"}

\* get_top_topics(count, min_score)
GetTopTopics(count, min_score) ==
    /\ ret' = get_top_topics(topics, count, min_score)
    /\ call' = Call("get_top_topics", <<>>, count, min_score, "")
    /\ UNCHANGED <<topics, processed_titles, topic_history, now, raceVars, schedVars, manageVars, pipeVars>>

\* get_topics_by_coin(coin_symbol)
GetTopicsByCoin(coin_symbol) ==
    /\ ret' = get_topics_by_coin(topics, coin_symbol)
    /\ call' = Call("get_topics_by_coin", <<>>, 0, 0, coin_symbol)
    /\ UNCHANGED <<topics, processed_titles, topic_history, now, raceVars, schedVars, manageVars, pipeVars>>

\* generate_topic_report()
GenerateTopicReport ==
    /\ ret' = generate_topic_report(topics)
    /\ call' = Call("generate_topic_report", <<>>, 0, 0, "")
    /\ UNCHANGED <<topics, processed_titles, topic_history, now, raceVars, schedVars, manageVars, pipeVars>>

\* time passes (call and ret describe the last call only while the clock
\* still shows the time of that call)
Tick ==
    /\ now + TickLen <= MaxTicks * TickLen
    /\ now' = now + TickLen
    /\ call' = NoCall
    /\ ret' = <<>>
    /\ UNCHANGED <<topics, processed_titles, topic_history, raceVars, schedVars, manageVars, pipeVars>>

Next ==
    \/ \E batch \in Batches(now) : AddTopics(batch)
    \/ \E count \in Counts, min_score \in MinScores : GetTopTopics(count, min_score)
    \/ \E coin_symbol \in Coins : GetTopicsByCoin(coin_symbol)
    \/ GenerateTopicReport
    \/ Tick

Spec == Init /\ [][Next]_vars

(***************************************************************************)
(* The scorer on its own: one topic of any priority, keyword count, coin   *)
(* count, age and signal is added to an empty store.                       *)
(***************************************************************************)
\* the age at which 1 - age/72h meets the floor 0.3 (50.4 h)
FloorAge == ((10 - DecayFloorTenths) * DecayWindow) \div 10

\* ages at insertion: two hours ahead of the clock (a feed's published time
\* in UTC read against a local clock behind it), fresh, a tick old, just
\* before and at the floor, the whole window, a day more
ScoreAges == {0 - 2 * UnitsPerHour, 0, TickLen, FloorAge - 1, FloorAge, DecayWindow, DecayWindow + 24 * UnitsPerHour}

\* the signal a collector sets: none, abs(change) = 7.5, 50 for a trend
ScoreSignals == {0, (15 * ScoreScale) \div 2, 50 * ScoreScale}

ScoreCandidates(clock) ==
    { CollectedTopic(TitleSurges, "rss_feed", p, c, k, clock - a, g) :
        p \in TopicPriority, c \in {<<>>, <<"BTC">>, <<"BTC", "ETH">>},
        k \in {<<>>, <<"price">>, <<"price", "ETF">>}, a \in ScoreAges, g \in ScoreSignals }

InitScore ==
    /\ now = 0
    /\ call = NoCall
    /\ ret = <<>>
    /\ NoWriters
    /\ SchedulerInit
    /\ ManageInit
    /\ PipelineInit
    /\ topics = EmptyManager.topics
    /\ processed_titles = EmptyManager.processed_titles
    /\ topic_history = EmptyManager.topic_history

NextScore == \E c \in ScoreCandidates(now) : topics = <<>> /\ AddTopics(<<c>>)

SpecScore == InitScore /\ [][NextScore]_vars

(***************************************************************************)
(* The store fed by whole collector batches, reported and saved.           *)
(***************************************************************************)
TitleUpgrade == <<"E","t","h","e","r","e","u","m"," ","u","p","g","r","a","d","e"," ","l","i","v","e">>
TitleLawsuit == <<"S","E","C"," ","l","a","w","s","u","i","t"," ","f","i","l","e","d">>

\* what one collector run can emit at clock reading `clock`: two spellings
\* of one headline and two unrelated headlines
StoreCandidates(clock) ==
    { CollectedTopic(TitleSurges, "rss_feed", "URGENT", <<"BTC">>, <<"surge">>, clock, 0),
      CollectedTopic(TitleSurgesCaps, "price_api", "LOW", <<>>, <<>>, clock - DecayWindow, 0),
      CollectedTopic(TitleUpgrade, "price_api", "LOW", <<"ETH">>, <<>>, clock - DecayWindow, 0),
      CollectedTopic(TitleLawsuit, "rss_feed", "HIGH", <<>>, <<"SEC">>, clock, 0) }

\* the lists one collector run hands to add_topics: one, two or three
\* different candidates in any order
StoreBatches(clock) ==
    LET C == StoreCandidates(clock)
    IN { <<c>> : c \in C }
       \cup { b \in C \X C : b[1] # b[2] }
       \cup { b \in C \X C \X C : b[1] # b[2] /\ b[1] # b[3] /\ b[2] # b[3] }

\* add_topics(batch) with a collector's batch
AddBatch(batch) ==
    /\ Len(AddLoop(Manager, batch, now).topics) <= MaxTopics + 1
    /\ add_topics(batch)

\* save_topics(filename): ret is what is written to the file
SaveTopics ==
    /\ ret' = save_topics(topics)
    /\ call' = Call("save_topics", <<>>, 0, 0, "")
    /\ UNCHANGED <<topics, processed_titles, topic_history, now, raceVars, schedVars, manageVars, pipeVars>>

NextStore ==
    \/ \E batch \in StoreBatches(now) : AddBatch(batch)
    \/ GenerateTopicReport
    \/ SaveTopics

SpecStore == Init /\ [][NextStore]_vars

(***************************************************************************)
(* ContentScorer of src/content_scorer.py (the category-driven scorer).    *)
(* An argument that may be None or of another type than declared is a      *)
(* tagged record.  Points are integers and multipliers are in tenths, so   *)
(* raw_score and final_score are in hundredths of a point; the returned    *)
(* score, rounded to one decimal, is in tenths of a point.                 *)
(***************************************************************************)
PyNone == [none |-> TRUE]
PyText(s) == [text |-> s]
PyNum(n) == [num |-> n]
PyList(l) == [list |-> l]
PyDict(d) == [dict |-> d]
\* a datetime, or the ISO string of one, denoting the clock reading t
PyTime(t) == [time |-> t]

IsText(v) == "text" \in DOMAIN v
IsNum(v) == "num" \in DOMAIN v
IsList(v) == "list" \in DOMAIN v
IsDict(v) == "dict" \in DOMAIN v
IsTime(v) == "time" \in DOMAIN v

\* dict.get(key, default)
Get(d, key, default) == IF key \in DOMAIN d THEN d[key] ELSE default

\* scoring_rules["urgent"]["keywords"]
keywords_urgent ==
    << <<"h","a","c","k">>, <<"h","a","c","k","e","d">>, <<"e","x","p","l","o","i","t">>, <<"b","r","e","a","c","h">>, <<"s","t","o","l","e","n">>,
       <<"t","h","e","f","t">>, <<"c","r","a","s","h">>, <<"c","o","l","l","a","p","s","e">>, <<"s","c","a","m">>, <<"f","r","a","u","d">>,
       <<"r","u","g"," ","p","u","l","l">>, <<"s","e","c"," ","i","n","v","e","s","t","i","g","a","t","i","o","n">>, <<"l","a","w","s","u","i","t">>,
       <<"b","a","n">>, <<"b","a","n","n","e","d">>, <<"e","m","e","r","g","e","n","c","y">>, <<"c","r","i","t","i","c","a","l"," ","b","u","g">>,
       <<"v","u","l","n","e","r","a","b","i","l","i","t","y">>, <<"a","t","t","a","c","k">>, <<"r","a","n","s","o","m","w","a","r","e">> >>

\* scoring_rules["high"]["keywords"]
keywords_high ==
    << <<"b","r","e","a","k","i","n","g">>, <<"a","n","n","o","u","n","c","e","d">>, <<"l","a","u","n","c","h">>,
       <<"l","a","u","n","c","h","e","s">>, <<"r","e","l","e","a","s","e","d">>, <<"p","a","r","t","n","e","r","s","h","i","p">>,
       <<"m","e","r","g","e","r">>, <<"a","c","q","u","i","s","i","t","i","o","n">>, <<"i","n","v","e","s","t","m","e","n","t">>,
       <<"e","t","f"," ","a","p","p","r","o","v","e","d">>, <<"e","t","f"," ","a","p","p","r","o","v","a","l">>,
       <<"r","e","g","u","l","a","t","i","o","n">>, <<"r","e","g","u","l","a","t","o","r","y">>,
       <<"a","l","l","-","t","i","m","e"," ","h","i","g","h">>, <<"a","t","h">>, <<"n","e","w"," ","h","i","g","h">>,
       <<"r","e","c","o","r","d"," ","h","i","g","h">>, <<"i","n","s","t","i","t","u","t","i","o","n","a","l">>, <<"w","h","a","l","e">>,
       <<"m","a","j","o","r"," ","u","p","d","a","t","e">>, <<"u","p","g","r","a","d","e">>, <<"m","a","i","n","n","e","t">>,
       <<"t","e","s","t","n","e","t">>, <<"h","a","l","v","i","n","g">>, <<"h","a","r","d"," ","f","o","r","k">> >>

\* scoring_rules["medium"]["keywords"]
keywords_medium ==
    << <<"s","u","r","g","e">>, <<"r","a","l","l","y">>, <<"g","a","i","n","s">>, <<"r","i","s","e","s">>, <<"i","n","c","r","e","a","s","e","s">>,
       <<"d","r","o","p","s">>, <<"f","a","l","l","s">>, <<"d","e","c","l","i","n","e","s">>, <<"a","n","a","l","y","s","i","s">>,
       <<"p","r","e","d","i","c","t","i","o","n">>, <<"f","o","r","e","c","a","s","t">>, <<"t","r","e","n","d">>,
       <<"t","e","c","h","n","i","c","a","l"," ","a","n","a","l","y","s","i","s">>, <<"r","e","s","i","s","t","a","n","c","e">>,
       <<"s","u","p","p","o","r","t">>, <<"b","u","l","l","i","s","h">>, <<"b","e","a","r","i","s","h">>, <<"a","d","o","p","t","i","o","n">>,
       <<"i","n","t","e","g","r","a","t","i","o","n">>, <<"d","e","v","e","l","o","p","m","e","n","t">>, <<"r","o","a","d","m","a","p">>,
       <<"t","o","k","e","n","o","m","i","c","s">>, <<"a","i","r","d","r","o","p">> >>

\* scoring_rules["low"]["keywords"]
keywords_low ==
    << <<"o","p","i","n","i","o","n">>, <<"t","h","o","u","g","h","t","s">>, <<"b","e","l","i","e","v","e","s">>, <<"e","x","p","e","c","t","s">>,
       <<"m","i","g","h","t">>, <<"c","o","u","l","d">>, <<"p","o","s","s","i","b","l","y">>, <<"p","e","r","h","a","p","s">>,
       <<"i","n","t","e","r","v","i","e","w">>, <<"p","o","d","c","a","s","t">>, <<"c","o","n","f","e","r","e","n","c","e">>,
       <<"e","v","e","n","t">>, <<"m","e","e","t","u","p">>, <<"c","o","m","m","u","n","i","t","y">>, <<"s","o","c","i","a","l">>,
       <<"t","w","e","e","t">>, <<"t","w","i","t","t","e","r">>, <<"r","e","d","d","i","t">>, <<"d","i","s","c","u","s","s","i","o","n">> >>

\* scoring_rules, in the order the dict is iterated
scoring_rules ==
    << [category |-> "urgent", keywords |-> keywords_urgent, weight |-> 25, base_score |-> 90],
       [category |-> "high", keywords |-> keywords_high, weight |-> 15, base_score |-> 70],
       [category |-> "medium", keywords |-> keywords_medium, weight |-> 10, base_score |-> 50],
       [category |-> "low", keywords |-> keywords_low, weight |-> 5, base_score |-> 20] >>

\* price_impact_rules, in the order the dict is iterated (thresholds in
\* percent, bonus in points)
price_impact_rules ==
    << [impact_type |-> "massive", threshold |-> 15, bonus |-> 20],
       [impact_type |-> "significant", threshold |-> 8, bonus |-> 15],
       [impact_type |-> "notable", threshold |-> 5, bonus |-> 10],
       [impact_type |-> "minor", threshold |-> 2, bonus |-> 5] >>

\* coin_importance, in tenths
coin_importance == [BTC |-> 15, ETH |-> 14, BNB |-> 12, XRP |-> 12, ADA |-> 11, SOL |-> 11, DOGE |-> 10]

Min(a, b) == IF a <= b THEN a ELSE b

Abs(n) == IF n < 0 THEN 0 - n ELSE n

\* keyword in text
Contains(text, keyword) ==
    \E i \in 0..(Len(text) - Len(keyword)) : SubSeq(text, i + 1, i + Len(keyword)) = keyword

\* category_score after the loop over the keywords of one category
category_score(rules, text) ==
    rules.base_score + rules.weight * Cardinality({k \in 1..Len(rules.keywords) : Contains(text, rules.keywords[k])})

RECURSIVE AnalyzeLoop(_, _, _)
\* the loop of _analyze_content over the categories from the i-th on
AnalyzeLoop(text, i, max_score) ==
    IF i > Len(scoring_rules) THEN max_score
    ELSE LET cs == category_score(scoring_rules[i], text)
         IN AnalyzeLoop(text, i + 1, IF cs > max_score THEN cs ELSE max_score)

\* title + " " + summary raises TypeError unless both are strings
_analyze_content_raises(title, summary) == ~IsText(title) \/ ~IsText(summary)

\* faulty variant: the category maximum is returned without the cap
_analyze_content_uncapped(title, summary) ==
    AnalyzeLoop(Lower(title.text \o <<" ">> \o summary.text), 1, 0)

\* _analyze_content, in points
_analyze_content(title, summary) ==
    Min(100, AnalyzeLoop(Lower(title.text \o <<" ">> \o summary.text), 1, 0))

RECURSIVE PriceLoop(_, _)
\* the loop of _calculate_price_bonus over the rules from the i-th on
PriceLoop(abs_change, i) ==
    IF i > Len(price_impact_rules) THEN 0
    ELSE IF abs_change >= price_impact_rules[i].threshold
         THEN (IF abs_change >= 20 THEN (price_impact_rules[i].bonus * 15) \div 10 ELSE price_impact_rules[i].bonus)
         ELSE PriceLoop(abs_change, i + 1)

\* abs(price_change) raises TypeError on a value that is no number
_calculate_price_bonus_raises(price_change) == price_change # PyNone /\ ~IsNum(price_change)

\* _calculate_price_bonus, in points
_calculate_price_bonus(price_change) ==
    IF price_change = PyNone THEN 0 ELSE PriceLoop(Abs(price_change.num), 1)

RECURSIVE CoinLoop(_, _)
\* the loop of _calculate_coin_importance
CoinLoop(coins, max_importance) ==
    IF coins = <<>> THEN max_importance
    ELSE CoinLoop(Tail(coins), Max(max_importance, Get(coin_importance, Head(coins), 10)))

\* `not coins` is true of None, of an empty list and of 0; iterating over
\* any other value that is no list raises TypeError
_calculate_coin_importance_raises(coins) == coins # PyNone /\ coins # PyNum(0) /\ ~IsList(coins)

\* _calculate_coin_importance, in tenths
_calculate_coin_importance(coins) ==
    IF coins = PyNone \/ coins = PyNum(0) \/ coins = PyList(<<>>) THEN 10 ELSE CoinLoop(coins.list, 10)

\* _calculate_time_decay at clock reading `clock`, in tenths: 1.0 when no
\* time is given, and 1.0 from the except branch when the value cannot be
\* read as a time
_calculate_time_decay(published_time, clock) ==
    IF published_time = PyNone \/ published_time = PyText(<<>>) THEN 10
    ELSE IF ~IsTime(published_time) THEN 10
    ELSE LET time_diff == clock - published_time.time
         IN CASE time_diff <= UnitsPerHour -> 10
              [] time_diff > UnitsPerHour /\ time_diff <= 6 * UnitsPerHour -> 9
              [] time_diff > 6 * UnitsPerHour /\ time_diff <= 24 * UnitsPerHour -> 8
              [] time_diff > 24 * UnitsPerHour /\ time_diff <= 48 * UnitsPerHour -> 6
              [] time_diff > 48 * UnitsPerHour /\ time_diff <= 7 * 24 * UnitsPerHour -> 4
              [] OTHER -> 2

\* faulty variant: "urgent" begins at 80 points
_determine_priority_from_eighty(score) ==
    IF score >= 80 * 100 THEN "urgent"
    ELSE IF score >= 70 * 100 THEN "high"
    ELSE IF score >= 50 * 100 THEN "medium"
    ELSE "low"

\* _determine_priority of a score in hundredths of a point
_determine_priority(score) ==
    IF score >= 85 * 100 THEN "urgent"
    ELSE IF score >= 70 * 100 THEN "high"
    ELSE IF score >= 50 * 100 THEN "medium"
    ELSE "low"

\* round(x, 1) of a score x in hundredths, in tenths.  A score with a 5 in
\* the hundredths is rounded by the nearest double; the only such value the
\* scorer produces is 94.05 (95 * 1.1 * 0.9), whose double lies above it
round1(x) == (x + 5) \div 10

\* the result of the except branch of score_content: 50.0, "medium"
ScoreFallback == [score |-> 50 * 10, priority |-> "medium", error |-> TRUE]

\* an exception leaving a call
Raised == [raised |-> TRUE]

\* the try block of score_content
ScoreTry(title, summary, coins, price_change, published_time, clock) ==
    LET content_score == _analyze_content(title, summary)
        price_bonus == _calculate_price_bonus(price_change)
        coin_multiplier == _calculate_coin_importance(coins)
        time_multiplier == _calculate_time_decay(published_time, clock)
        raw_score == (content_score + price_bonus) * coin_multiplier * time_multiplier
        final_score == Min(100 * 100, Max(0, raw_score))
    IN [score |-> round1(final_score),
        priority |-> _determine_priority(final_score),
        error |-> FALSE,
        breakdown |-> [content_score |-> content_score, price_bonus |-> price_bonus,
                       coin_multiplier |-> coin_multiplier, time_multiplier |-> time_multiplier,
                       raw_score |-> raw_score]]

\* a statement of the try block raises
ScoreRaises(title, summary, coins, price_change) ==
    \/ _analyze_content_raises(title, summary)
    \/ _calculate_price_bonus_raises(price_change)
    \/ _calculate_coin_importance_raises(coins)

\* faulty variant: no except branch, the exception leaves score_content
score_content_unguarded(title, summary, coins, price_change, published_time, clock) ==
    IF ScoreRaises(title, summary, coins, price_change)
    THEN Raised
    ELSE ScoreTry(title, summary, coins, price_change, published_time, clock)

\* score_content at clock reading `clock`
score_content(title, summary, coins, price_change, published_time, clock) ==
    IF ScoreRaises(title, summary, coins, price_change)
    THEN ScoreFallback
    ELSE ScoreTry(title, summary, coins, price_change, published_time, clock)

\* one iteration of the loop of batch_score_topics on the dict `topic`:
\* topic.get('primaryData', {}).get('change24h') raises AttributeError when
\* primaryData is None, and the except branch sets 50 and "medium"
ScoreTopic(topic, clock) ==
    LET primaryData == Get(topic, "primaryData", PyDict(<<>>))
    IN IF ~IsDict(primaryData)
       THEN DictSet(DictSet(topic, "score", 50 * 10), "priority", "medium")
       ELSE LET r == score_content(Get(topic, "title", PyText(<<>>)), Get(topic, "summary", PyText(<<>>)),
                                   Get(topic, "coins", PyList(<<>>)), Get(primaryData.dict, "change24h", PyNone),
                                   Get(topic, "collectedAt", PyNone), clock)
            IN IF r = Raised
               THEN DictSet(DictSet(topic, "score", 50 * 10), "priority", "medium")
               ELSE DictSet(DictSet(topic, "score", r.score), "priority", r.priority)

RECURSIVE BatchLoop(_, _)
\* the loop of batch_score_topics: scored_topics
BatchLoop(ts, clock) ==
    IF ts = <<>> THEN <<>> ELSE <<ScoreTopic(Head(ts), clock)>> \o BatchLoop(Tail(ts), clock)

\* batch_score_topics: the scored topics, sorted by descending score
batch_score_topics(ts, clock) == SortedByScore(BatchLoop(ts, clock))

(***************************************************************************)
(* The category-driven scorer on its own.                                  *)
(***************************************************************************)
TextHacked == <<"E","x","c","h","a","n","g","e"," ","h","a","c","k","e","d">>
TextEtf == <<"E","T","F"," ","a","p","p","r","o","v","e","d"," ","a","t"," ","l","a","u","n","c","h">>
TextStolen == <<"s","t","o","l","e","n"," ","f","u","n","d","s">>
TextSoon == <<"s","o","o","n">>

\* titles: two urgent keywords ("hack", "hacked"), two high keywords ("etf
\* approved", "launch"), one medium keyword ("surge"), and None
ContentTitles == {PyText(TextHacked), PyText(TextEtf), PyText(TitleSurges), PyNone}
ContentSummaries == {PyText(<<>>), PyText(TextStolen), PyNone}
ContentCoins == {PyNone, PyList(<<>>), PyList(<<"BTC">>), PyList(<<"ADA", "ETH">>), PyList(<<"XYZ", "DOGE">>), PyNum(1)}
\* price changes in percent: none, the bands' edges, and a string
ContentChanges == {PyNone, PyText(TextSoon)} \cup {PyNum(n) : n \in {0, 1, 2, 0 - 5, 7, 8, 14, 15, 19, 20, 0 - 25}}
\* published times: none, the bands' edges with the first unit past each, a
\* time ahead of the clock, and a string that is no time
ContentTimes(clock) ==
    {PyNone, PyText(<<>>), PyText(TextSoon)}
    \cup {PyTime(clock - h * UnitsPerHour) : h \in {0 - 1, 1, 6, 24, 48, 7 * 24}}
    \cup {PyTime(clock - (h * UnitsPerHour + 1)) : h \in {1, 6, 24, 48, 7 * 24}}

\* the topic dicts handed to batch_score_topics
ContentTopics(clock) ==
    { [id |-> "news_1", title |-> PyText(TextHacked), summary |-> PyText(<<>>), coins |-> PyList(<<"BTC">>),
       collectedAt |-> PyTime(clock), score |-> 60 * 10, priority |-> "medium"],
      [id |-> "price_2", title |-> PyText(TitleSurges), summary |-> PyText(<<>>), coins |-> PyList(<<>>),
       primaryData |-> PyDict([change24h |-> PyNum(0 - 25)]), collectedAt |-> PyTime(clock - 30 * UnitsPerHour),
       score |-> 95 * 10, priority |-> "urgent"],
      [id |-> "untitled_3", title |-> PyNone, summary |-> PyText(<<>>), coins |-> PyList(<<"ETH">>),
       primaryData |-> PyDict([coin |-> "ETH"]), collectedAt |-> PyTime(clock), score |-> 70 * 10, priority |-> "high"],
      [id |-> "nodata_4", title |-> PyText(TextEtf), summary |-> PyText(<<>>), coins |-> PyList(<<"ETH">>),
       primaryData |-> PyNone, collectedAt |-> PyTime(clock), score |-> 70 * 10, priority |-> "high"],
      [id |-> "undated_5", title |-> PyText(TextEtf), summary |-> PyText(<<>>), coins |-> PyList(<<>>),
       primaryData |-> PyDict([coin |-> "BTC"]), collectedAt |-> PyText(TextSoon), score |-> 70 * 10, priority |-> "high"] }

\* the lists handed to batch_score_topics: up to three topics, repeats allowed
ContentBatches(clock) ==
    LET T == ContentTopics(clock)
    IN {<<>>} \cup { <<t>> : t \in T } \cup (T \X T) \cup (T \X T \X T)

\* score_content(title, summary, coins, price_change, published_time)
ScoreContent(title, summary, coins, price_change, published_time) ==
    /\ call = NoCall
    /\ call' = [op |-> "score_content", title |-> title, summary |-> summary, coins |-> coins,
                price_change |-> price_change, published_time |-> published_time]
    /\ ret' = score_content(title, summary, coins, price_change, published_time, now)
    /\ UNCHANGED <<topics, processed_titles, topic_history, now, raceVars, schedVars, manageVars, pipeVars>>

\* batch_score_topics(ts)
BatchScoreTopics(ts) ==
    /\ call = NoCall
    /\ call' = [op |-> "batch_score_topics", topics |-> ts]
    /\ ret' = batch_score_topics(ts, now)
    /\ UNCHANGED <<topics, processed_titles, topic_history, now, raceVars, schedVars, manageVars, pipeVars>>

NextContent ==
    \/ \E title \in ContentTitles, summary \in ContentSummaries, coins \in ContentCoins,
          price_change \in ContentChanges, published_time \in ContentTimes(now) :
          ScoreContent(title, summary, coins, price_change, published_time)
    \/ \E ts \in ContentBatches(now) : BatchScoreTopics(ts)

SpecContent == InitScore /\ [][NextContent]_vars

(***************************************************************************)
(* RSSFeedCollector of backend/src/topic_collector.py.                     *)
(***************************************************************************)
\* crypto_mapping, in the order the dict is iterated (the names written in
\* ASCII; the others cannot occur in the ASCII texts of this model)
crypto_mapping ==
    << [name |-> <<"b","i","t","c","o","i","n">>, symbol |-> "BTC"], [name |-> <<"e","t","h","e","r","e","u","m">>, symbol |-> "ETH"],
       [name |-> <<"r","i","p","p","l","e">>, symbol |-> "XRP"], [name |-> <<"c","a","r","d","a","n","o">>, symbol |-> "ADA"],
       [name |-> <<"s","o","l","a","n","a">>, symbol |-> "SOL"], [name |-> <<"p","o","l","k","a","d","o","t">>, symbol |-> "DOT"],
       [name |-> <<"c","h","a","i","n","l","i","n","k">>, symbol |-> "LINK"], [name |-> <<"b","i","n","a","n","c","e">>, symbol |-> "BNB"],
       [name |-> <<"p","o","l","y","g","o","n">>, symbol |-> "MATIC"], [name |-> <<"a","v","a","l","a","n","c","h","e">>, symbol |-> "AVAX"] >>

\* the symbols _extract_coins accepts from the matches of \b([A-Z]{3,5})\b
symbol_list ==
    << [chars |-> <<"B","T","C">>, symbol |-> "BTC"], [chars |-> <<"E","T","H">>, symbol |-> "ETH"], [chars |-> <<"X","R","P">>, symbol |-> "XRP"],
       [chars |-> <<"A","D","A">>, symbol |-> "ADA"], [chars |-> <<"S","O","L">>, symbol |-> "SOL"], [chars |-> <<"D","O","T">>, symbol |-> "DOT"],
       [chars |-> <<"L","I","N","K">>, symbol |-> "LINK"], [chars |-> <<"B","N","B">>, symbol |-> "BNB"],
       [chars |-> <<"M","A","T","I","C">>, symbol |-> "MATIC"], [chars |-> <<"A","V","A","X">>, symbol |-> "AVAX"] >>

\* important_terms of _extract_keywords (the ASCII terms)
important_terms ==
    << [term |-> "price", chars |-> <<"p","r","i","c","e">>], [term |-> "surge", chars |-> <<"s","u","r","g","e">>],
       [term |-> "crash", chars |-> <<"c","r","a","s","h">>], [term |-> "pump", chars |-> <<"p","u","m","p">>],
       [term |-> "dump", chars |-> <<"d","u","m","p">>], [term |-> "ATH", chars |-> <<"A","T","H">>],
       [term |-> "breakout", chars |-> <<"b","r","e","a","k","o","u","t">>], [term |-> "hack", chars |-> <<"h","a","c","k">>],
       [term |-> "regulation", chars |-> <<"r","e","g","u","l","a","t","i","o","n">>], [term |-> "SEC", chars |-> <<"S","E","C">>],
       [term |-> "ETF", chars |-> <<"E","T","F">>], [term |-> "update", chars |-> <<"u","p","d","a","t","e">>],
       [term |-> "upgrade", chars |-> <<"u","p","g","r","a","d","e">>], [term |-> "launch", chars |-> <<"l","a","u","n","c","h">>],
       [term |-> "listing", chars |-> <<"l","i","s","t","i","n","g">>], [term |-> "DeFi", chars |-> <<"D","e","F","i">>],
       [term |-> "NFT", chars |-> <<"N","F","T">>], [term |-> "metaverse", chars |-> <<"m","e","t","a","v","e","r","s","e">>],
       [term |-> "AI", chars |-> <<"A","I">>], [term |-> "halving", chars |-> <<"h","a","l","v","i","n","g">>],
       [term |-> "mining", chars |-> <<"m","i","n","i","n","g">>], [term |-> "staking", chars |-> <<"s","t","a","k","i","n","g">>],
       [term |-> "yield", chars |-> <<"y","i","e","l","d">>] >>

\* urgent_keywords of RSSFeedCollector._determine_priority (the ASCII keywords)
urgent_keywords ==
    << <<"b","r","e","a","k","i","n","g">>, <<"h","a","c","k">>, <<"c","r","a","s","h">>, <<"b","a","n">>, <<"e","m","e","r","g","e","n","c","y">> >>

\* high_keywords of RSSFeedCollector._determine_priority (the ASCII keywords)
high_keywords ==
    << <<"A","T","H">>, <<"s","u","r","g","e">>, <<"l","a","u","n","c","h">>, <<"l","i","s","t","i","n","g">>,
       <<"p","a","r","t","n","e","r","s","h","i","p">>, <<"u","p","g","r","a","d","e">> >>

\* medium_keywords of RSSFeedCollector._determine_priority (the ASCII keywords)
medium_keywords ==
    << <<"a","n","a","l","y","s","i","s">>, <<"r","e","p","o","r","t">>, <<"t","r","e","n","d">> >>

Digits == {"0", "1", "2", "3", "4", "5", "6", "7", "8", "9"}

\* a character matched by \w
WordChar(ch) == ch \in DOMAIN CaseFold \/ ch \in {LowerChars[i] : i \in 1..Len(LowerChars)} \/ ch \in Digits \/ ch = "_"

RECURSIVE TokensFrom(_, _, _)
\* the maximal runs of \w characters of s from position i on, in order
TokensFrom(s, i, cur) ==
    IF i > Len(s)
    THEN IF cur = <<>> THEN <<>> ELSE <<cur>>
    ELSE IF WordChar(s[i])
         THEN TokensFrom(s, i + 1, Append(cur, s[i]))
         ELSE (IF cur = <<>> THEN <<>> ELSE <<cur>>) \o TokensFrom(s, i + 1, <<>>)

\* re.findall(r'\b([A-Z]{3,5})\b', text): the runs of \w characters made of
\* three to five capital letters
symbol_matches(text) ==
    LET keep(tok) == Len(tok) >= 3 /\ Len(tok) <= 5 /\ \A i \in 1..Len(tok) : tok[i] \in DOMAIN CaseFold
    IN SelectSeq(TokensFrom(text, 1, <<>>), keep)

\* x in lst
InList(lst, x) == \E i \in 1..Len(lst) : lst[i] = x

RECURSIVE MappingLoop(_, _, _)
\* the loop of _extract_coins over crypto_mapping from the i-th entry on
MappingLoop(text_lower, i, coins) ==
    IF i > Len(crypto_mapping) THEN coins
    ELSE MappingLoop(text_lower, i + 1,
                     IF Contains(text_lower, crypto_mapping[i].name) /\ ~InList(coins, crypto_mapping[i].symbol)
                     THEN Append(coins, crypto_mapping[i].symbol) ELSE coins)

RECURSIVE MatchLoop(_, _)
\* the loop of _extract_coins over the matches of the pattern
MatchLoop(matches, coins) ==
    IF matches = <<>> THEN coins
    ELSE LET known == {k \in 1..Len(symbol_list) : symbol_list[k].chars = Head(matches)}
         IN MatchLoop(Tail(matches),
                      IF known # {} /\ ~InList(coins, symbol_list[CHOOSE k \in known : TRUE].symbol)
                      THEN Append(coins, symbol_list[CHOOSE k \in known : TRUE].symbol) ELSE coins)

\* _extract_coins(text)
_extract_coins(text) == MatchLoop(symbol_matches(text), MappingLoop(Lower(text), 1, <<>>))

RECURSIVE TermLoop(_, _, _)
\* the loop of _extract_keywords over important_terms from the i-th on
TermLoop(text_lower, i, keywords) ==
    IF i > Len(important_terms) THEN keywords
    ELSE TermLoop(text_lower, i + 1,
                  IF Contains(text_lower, Lower(important_terms[i].chars))
                  THEN Append(keywords, important_terms[i].term) ELSE keywords)

\* faulty variant: every matching term is returned
_extract_keywords_unsliced(text) == TermLoop(Lower(text), 1, <<>>)

\* _extract_keywords(text): at most five keywords
_extract_keywords(text) == SliceTo(TermLoop(Lower(text), 1, <<>>), 5)

\* RSSFeedCollector._determine_priority(title, summary): the keywords are
\* looked up as written in the lowercased text
RSSFeedCollector_determine_priority(title, summary) ==
    LET text == Lower(title \o <<" ">> \o summary)
        any(lst) == \E i \in 1..Len(lst) : Contains(text, lst[i])
    IN IF any(urgent_keywords) THEN "URGENT"
       ELSE IF any(high_keywords) THEN "HIGH"
       ELSE IF any(medium_keywords) THEN "MEDIUM"
       ELSE "LOW"

\* `not v`
Falsy(v) == v = PyNone \/ v = PyText(<<>>) \/ v = PyNum(0) \/ v = PyList(<<>>)

\* faulty variant: the title is not tested before the topic is built
_parse_entry_untested(entry, clock) ==
    LET title == Get(entry, "title", PyText(<<>>))
        summary == Get(entry, "summary", PyText(<<>>))
        published == Get(entry, "published_parsed", PyNone)
    IN IF ~IsText(title) \/ ~IsText(summary) THEN PyNone
       ELSE CollectedTopic(title.text, "rss_feed",
                           RSSFeedCollector_determine_priority(title.text, summary.text),
                           _extract_coins(title.text \o <<" ">> \o summary.text),
                           _extract_keywords(title.text \o <<" ">> \o summary.text),
                           IF Falsy(published) THEN clock ELSE published.time, 0)

\* _parse_entry(entry, source_url) at clock reading `clock`: the topic, or
\* None for an entry without title and from the except branch (title or
\* summary not a string)
_parse_entry(entry, clock) ==
    LET title == Get(entry, "title", PyText(<<>>))
        summary == Get(entry, "summary", PyText(<<>>))
        published == Get(entry, "published_parsed", PyNone)
    IN IF Falsy(title) THEN PyNone
       ELSE IF ~IsText(title) \/ ~IsText(summary) THEN PyNone
       ELSE CollectedTopic(title.text, "rss_feed",
                           RSSFeedCollector_determine_priority(title.text, summary.text),
                           _extract_coins(title.text \o <<" ">> \o summary.text),
                           _extract_keywords(title.text \o <<" ">> \o summary.text),
                           IF Falsy(published) THEN clock ELSE published.time, 0)

RECURSIVE EntryLoop(_, _)
\* the loop of collect over the entries of one feed
EntryLoop(entries, clock) ==
    IF entries = <<>> THEN <<>>
    ELSE LET topic == _parse_entry(Head(entries), clock)
         IN (IF topic = PyNone THEN <<>> ELSE <<topic>>) \o EntryLoop(Tail(entries), clock)

\* feedparser.parse(feed_url) raised
FeedRaises(feed) == "raises" \in DOMAIN feed

RECURSIVE FeedLoop(_, _)
\* the loop of collect over the feeds, each in its own try
FeedLoop(feeds, clock) ==
    IF feeds = <<>> THEN <<>>
    ELSE (IF FeedRaises(Head(feeds)) THEN <<>> ELSE EntryLoop(SliceTo(Head(feeds).entries, 10), clock))
         \o FeedLoop(Tail(feeds), clock)

\* RSSFeedCollector.collect() when fetching the feeds has the outcomes `feeds`
RSSFeedCollector_collect(feeds, clock) == FeedLoop(feeds, clock)

(***************************************************************************)
(* PriceDataCollector of backend/src/topic_collector.py.  Japanese text is *)
(* written in romaji, each fragment as one opaque character: it has no     *)
(* cased letter and no whitespace.                                         *)
(***************************************************************************)
\* str.upper()
Upper(s) ==
    [i \in 1..Len(s) |->
        IF \E k \in 1..Len(LowerChars) : LowerChars[k] = s[i]
        THEN UpperChars[CHOOSE k \in 1..Len(LowerChars) : LowerChars[k] = s[i]]
        ELSE s[i]]

\* the names of the coins of the price data, as characters and as the
\* string that stands for them in the keyword list of a topic
coin_names ==
    << [chars |-> <<"B","i","t","c","o","i","n">>, str |-> "Bitcoin"],
       [chars |-> <<"E","t","h","e","r","e","u","m">>, str |-> "Ethereum"],
       [chars |-> <<"S","o","l","a","n","a">>, str |-> "Solana"] >>

\* a symbol written in characters, as the string that stands for it in the
\* coin list of a topic
SymbolString(chars) == symbol_list[CHOOSE k \in 1..Len(symbol_list) : symbol_list[k].chars = chars].symbol

\* a coin name written in characters, as a string
NameString(chars) == coin_names[CHOOSE k \in 1..Len(coin_names) : coin_names[k].chars = chars].str

\* the request raised, or answered with another status than 200
FetchFailed(fetch) == "raises" \in DOMAIN fetch \/ fetch.status_code # 200

RECURSIVE InsertByChange(_, _)
\* place the mover x into a list sorted by descending abs(change_24h),
\* behind the movers with the same key
InsertByChange(sorted, x) ==
    IF sorted = <<>> THEN <<x>>
    ELSE IF Abs(Head(sorted).change_24h) >= Abs(x.change_24h)
         THEN <<Head(sorted)>> \o InsertByChange(Tail(sorted), x)
         ELSE <<x>> \o sorted

RECURSIVE SortedByChange(_)
\* sorted(movers, key=lambda x: abs(x['change_24h']), reverse=True)
SortedByChange(lst) ==
    IF lst = <<>> THEN <<>>
    ELSE InsertByChange(SortedByChange(SubSeq(lst, 1, Len(lst) - 1)), lst[Len(lst)])

RECURSIVE MoversOf(_)
\* the loop of _get_price_movers over the coins of the response: the coins
\* that moved by 10% or more (changes in percent)
MoversOf(coins) ==
    IF coins = <<>> THEN <<>>
    ELSE (IF Abs(Head(coins).price_change_percentage_24h) >= 10
          THEN << [id |-> Head(coins).id, symbol |-> Upper(Head(coins).symbol), name |-> Head(coins).name,
                   price |-> Head(coins).current_price, change_24h |-> Head(coins).price_change_percentage_24h] >>
          ELSE <<>>) \o MoversOf(Tail(coins))

\* _get_price_movers() when the request has the outcome `fetch`
_get_price_movers(fetch) ==
    IF FetchFailed(fetch) THEN <<>> ELSE SliceTo(SortedByChange(MoversOf(fetch.coins)), 10)

RECURSIVE TrendingOf(_)
\* the loop of _get_trending_coins over the items of the response
TrendingOf(items) ==
    IF items = <<>> THEN <<>>
    ELSE << [symbol |-> Head(items).item.symbol, name |-> Head(items).item.name] >> \o TrendingOf(Tail(items))

\* _get_trending_coins() when the request has the outcome `fetch`
_get_trending_coins(fetch) ==
    IF FetchFailed(fetch) THEN <<>> ELSE TrendingOf(SliceTo(fetch.coins, 5))

\* "kyuutou" (surge) or "kyuuraku" (plunge)
Direction(change) == IF change > 0 THEN "kyuutou" ELSE "kyuuraku"

\* the priority of a price topic and of its hybrid topics
PricePriority(change) ==
    IF Abs(change) >= 20 THEN "URGENT" ELSE IF Abs(change) >= 15 THEN "HIGH" ELSE "MEDIUM"

\* the summary of _create_price_topic formats mover['price'] as a number,
\* which raises TypeError when the price is null
_create_price_topic_raises(mover) == ~IsNum(mover.price)

\* _create_price_topic(mover) at clock reading `clock`; score = abs(change)
_create_price_topic(mover, clock) ==
    LET change == mover.change_24h
        title == mover.name \o <<"(">> \o mover.symbol \o <<")", "ga-24-jikan-de", ToString(Abs(change)), ".0%", Direction(change)>>
        keywords == <<Direction(change), "kakaku-hendou", "market", NameString(mover.name)>>
                    \o (IF change > 0 THEN <<"bullish", "joushou">> ELSE <<"bearish", "geraku">>)
    IN CollectedTopic(title, "price_api", PricePriority(change), <<SymbolString(mover.symbol)>>, keywords,
                      clock, Abs(change) * ScoreScale)

\* analysis_angles formatted with the symbol and the direction
analysis_angles(symbol, direction) ==
    << <<"naze-kakaku-wa", direction, "shita-no-ka-kangaerareru-3-tsu-no-youin">>,
       <<"kongo-no-kakaku-wa-dou-naru-tekunikaru-bunseki-to-shijou-shinri">>,
       <<"senmonka-no-iken-matome">> \o symbol \o <<"wa-ima-ga-kaidoki-ka">>,
       <<"kono", direction, "wa-tsuzuku-onchein-deeta-kara-yomitoku">>,
       <<"kujira-no-ugoki">> \o symbol \o <<"no-tairyou-torihiki-wa-atta-ka">>,
       symbol \o <<"no", direction, "ga-hoka-no-angou-tsuuka-ni-ataeru-eikyou-to-wa">> >>

\* _create_hybrid_topics(mover) at clock reading `clock`: two analysis
\* topics, three from a change of 15%; score = abs(change) * 0.9
_create_hybrid_topics(mover, clock) ==
    LET change == mover.change_24h
        direction == Direction(change)
        num_angles == IF Abs(change) >= 15 THEN 3 ELSE 2
        selected_angles == SliceTo(analysis_angles(mover.symbol, direction), num_angles)
        keywords == <<"bunseki", "kousatsu", "mitooshi", "youin", NameString(mover.name), SymbolString(mover.symbol),
                      "tekunikaru-bunseki", "fandamentaruzu", "shijou-shinri">>
                    \o (IF change > 0 THEN <<"joushou-youin", "bullish", "kaidoki">> ELSE <<"geraku-youin", "bearish", "risuku">>)
    IN [i \in 1..Len(selected_angles) |->
          CollectedTopic(mover.name \o <<"ga", ToString(Abs(change)), ".0%", direction, ":">> \o selected_angles[i],
                         "price_api", PricePriority(change), <<SymbolString(mover.symbol)>>, keywords,
                         clock, (Abs(change) * 9 * ScoreScale) \div 10)]

\* _create_trending_topic(coin) at clock reading `clock`
_create_trending_topic(coin, clock) ==
    CollectedTopic(coin.name \o <<"(">> \o coin.symbol \o <<")", "ga-chuumoku-wo-atsumeru", " ", "-", " ", "torendo-iri">>,
                   "social_media", "HIGH", <<SymbolString(coin.symbol)>>,
                   <<"trending", "chuumoku", "wadai", NameString(coin.name)>>, clock, 50 * ScoreScale)

RECURSIVE MoverLoop(_, _, _)
\* the loop of collect over the movers: the topics so far, and whether a
\* statement raised (which ends the try block)
MoverLoop(movers, acc, clock) ==
    IF movers = <<>> THEN [topics |-> acc, raised |-> FALSE]
    ELSE IF _create_price_topic_raises(Head(movers)) THEN [topics |-> acc, raised |-> TRUE]
    ELSE MoverLoop(Tail(movers),
                   acc \o <<_create_price_topic(Head(movers), clock)>> \o _create_hybrid_topics(Head(movers), clock),
                   clock)

\* PriceDataCollector.collect() when its two requests have the outcomes given
PriceDataCollector_collect(fetch_movers, fetch_trending, clock) ==
    LET r == MoverLoop(_get_price_movers(fetch_movers), <<>>, clock)
        trending == _get_trending_coins(fetch_trending)
    IN IF r.raised THEN r.topics
       ELSE r.topics \o [i \in 1..Len(trending) |-> _create_trending_topic(trending[i], clock)]

(***************************************************************************)
(* TopicGenerator of backend/src/topic_generator.py.  A topic is a dict;   *)
(* the date suffix of its id is left out (one run lies within one day),    *)
(* an id is the sequence of its parts, and an emoji is one opaque          *)
(* character.  collectedAt is the clock reading: the process runs in UTC.  *)
(***************************************************************************)
\* `v or 0` of a number or None
OrZero(v) == IF IsNum(v) THEN v.num ELSE 0

\* psychological_levels
psychological_levels ==
    [bitcoin |-> <<50000, 60000, 70000, 80000, 100000>>,
     ethereum |-> <<3000, 4000, 5000, 6000>>,
     binancecoin |-> <<500, 600, 700, 800>>]

\* abs(price_change_percentage_24h or 0), the sort key and the threshold value
AbsChange(coin) == Abs(OrZero(Get(coin, "price_change_percentage_24h", PyNum(0))))

RECURSIVE InsertByAbsChange(_, _)
\* place the coin x into a list sorted by descending AbsChange, behind the
\* coins with the same key
InsertByAbsChange(sorted, x) ==
    IF sorted = <<>> THEN <<x>>
    ELSE IF AbsChange(Head(sorted)) >= AbsChange(x)
         THEN <<Head(sorted)>> \o InsertByAbsChange(Tail(sorted), x)
         ELSE <<x>> \o sorted

RECURSIVE SortedByAbsChange(_)
\* sorted(market_data, key=..., reverse=True)
SortedByAbsChange(lst) ==
    IF lst = <<>> THEN <<>>
    ELSE InsertByAbsChange(SortedByAbsChange(SubSeq(lst, 1, Len(lst) - 1)), lst[Len(lst)])

\* the fields a topic reads with coin['...'], which raise KeyError when absent
CoinKeysMissing(coin) == ~({"id", "name", "symbol"} \subseteq DOMAIN coin)

\* the topic of _generate_price_movement_topics for one coin; changes in
\* percent, 5 "notable", 10 "significant", 20 "massive"
PriceMovementTopic(coin, clock) ==
    LET change_24h == OrZero(Get(coin, "price_change_percentage_24h", PyNum(0)))
        abs_change == Abs(change_24h)
        intensity == IF abs_change >= 20 THEN "massive" ELSE IF abs_change >= 10 THEN "significant" ELSE "notable"
        direction == IF change_24h > 0 THEN "kyuutou" ELSE "kyuuraku"
        emoji == IF change_24h > 0 THEN "rocket" ELSE "chart-down"
    IN [id |-> <<"price_movement", coin.id>>,
        title |-> PyText(<<emoji, " ", direction, "bunseki:">> \o coin.name \o <<"(">> \o Upper(coin.symbol)
                         \o <<")", "ga-24-jikan-de", ToString(change_24h), ".0%", "no-oohaba-hendou">>),
        priority |-> IF intensity = "massive" THEN "urgent" ELSE IF intensity = "significant" THEN "high" ELSE "medium",
        score |-> Min(100, abs_change * 3) * 10,
        coins |-> PyList(<<SymbolString(Upper(coin.symbol))>>),
        collectedAt |-> PyTime(clock),
        source |-> "CoinGecko-shijou-deeta",
        summary |-> PyText(coin.name \o <<"ga", direction, "sono-haikei-youin-to-kongo-no-kakaku-doukou-wo-bunseki">>),
        type |-> "analysis",
        primaryData |-> PyDict([coin |-> SymbolString(Upper(coin.symbol)), change24h |-> PyNum(change_24h)])]

RECURSIVE PriceMovementLoop(_, _)
\* the loop of _generate_price_movement_topics over the sorted coins
PriceMovementLoop(coins, clock) ==
    IF coins = <<>> THEN <<>>
    ELSE (IF AbsChange(Head(coins)) < 5 THEN <<>> ELSE <<PriceMovementTopic(Head(coins), clock)>>)
         \o PriceMovementLoop(Tail(coins), clock)

\* _generate_price_movement_topics raises KeyError: a coin that moved by 5%
\* or more lacks a field the topic reads
_generate_price_movement_topics_raises(market_data) ==
    LET coins == SliceTo(SortedByAbsChange(market_data), 15)
    IN \E i \in 1..Len(coins) : AbsChange(coins[i]) >= 5 /\ CoinKeysMissing(coins[i])

\* _generate_price_movement_topics(market_data)
_generate_price_movement_topics(market_data, clock) ==
    PriceMovementLoop(SliceTo(SortedByAbsChange(market_data), 15), clock)

RECURSIVE FirstLevel(_, _)
\* the first level within 5% of the price, or 0: abs(price - level) / level <= 0.05
FirstLevel(levels, current_price) ==
    IF levels = <<>> THEN 0
    ELSE IF 20 * Abs(current_price - Head(levels)) <= Head(levels) THEN Head(levels)
    ELSE FirstLevel(Tail(levels), current_price)

\* the topic of _generate_psychological_level_topics for one coin and level
PsychologicalLevelTopic(coin, level, clock) ==
    LET current_price == OrZero(Get(coin, "current_price", PyNum(0)))
        breakthrough == IF current_price > level THEN "toppa" ELSE "toutatsu"
        emoji == IF current_price > level THEN "collision" ELSE "target"
    IN [id |-> <<"psychological_level", coin.id, ToString(level)>>,
        title |-> PyText(<<emoji, " ">> \o coin.name \o <<"(">> \o Upper(coin.symbol)
                         \o <<")", "ga-shinriteki-fushime", "$", ToString(level), "wo", breakthrough>>),
        priority |-> "high",
        score |-> 90 * 10,
        coins |-> PyList(<<SymbolString(Upper(coin.symbol))>>),
        collectedAt |-> PyTime(clock),
        source |-> "CoinGecko-kakaku-deeta",
        summary |-> PyText(coin.name \o <<"ga-juuyou-na-kakaku-rain-wo", breakthrough, "shijou-e-no-eikyou-to-kongo-no-tenbou-wo-bunseki">>),
        type |-> "analysis",
        primaryData |-> PyDict([coin |-> SymbolString(Upper(coin.symbol)),
                                change24h |-> Get(coin, "price_change_percentage_24h", PyNum(0))])]

\* the level a coin's topic is about, or 0 for none
LevelOf(coin) ==
    IF coin.id \in DOMAIN psychological_levels
    THEN FirstLevel(psychological_levels[coin.id], OrZero(Get(coin, "current_price", PyNum(0))))
    ELSE 0

RECURSIVE PsychologicalLoop(_, _)
\* the loop of _generate_psychological_level_topics over the first ten coins
PsychologicalLoop(coins, clock) ==
    IF coins = <<>> THEN <<>>
    ELSE (IF LevelOf(Head(coins)) # 0 THEN <<PsychologicalLevelTopic(Head(coins), LevelOf(Head(coins)), clock)>> ELSE <<>>)
         \o PsychologicalLoop(Tail(coins), clock)

\* _generate_psychological_level_topics raises KeyError: a coin has no id,
\* or a coin at a level lacks a field the topic reads
_generate_psychological_level_topics_raises(market_data) ==
    LET coins == SliceTo(market_data, 10)
    IN \E i \in 1..Len(coins) : "id" \notin DOMAIN coins[i] \/ (LevelOf(coins[i]) # 0 /\ CoinKeysMissing(coins[i]))

\* _generate_psychological_level_topics(market_data)
_generate_psychological_level_topics(market_data, clock) == PsychologicalLoop(SliceTo(market_data, 10), clock)

\* _generate_market_analysis_topics(market_data, global_data): the Bitcoin
\* dominance topic, read from global_data alone (dominance in percent)
_generate_market_analysis_topics(market_data, global_data, clock) ==
    IF global_data = PyNone \/ "data" \notin DOMAIN global_data.dict THEN <<>>
    ELSE LET market_cap_data == global_data.dict.data
             btc_dominance == Get(Get(market_cap_data, "market_cap_percentage", <<>>), "btc", 0)
         IN IF btc_dominance = 0 THEN <<>>
            ELSE << [id |-> <<"btc_dominance">>,
                     title |-> PyText(<<"bar-chart", " ", "bittokoin-dominansu", ToString(btc_dominance), ".0%", "de",
                                        IF btc_dominance > 50 THEN "kou-suijun"
                                        ELSE IF btc_dominance < 40 THEN "tei-suijun" ELSE "chuu-teido",
                                        "wo-iji">>),
                     priority |-> "medium",
                     score |-> 75 * 10,
                     coins |-> PyList(<<"BTC">>),
                     collectedAt |-> PyTime(clock),
                     source |-> "CoinGecko-shijou-deeta",
                     summary |-> PyText(<<"genzai-no-bittokoin-dominansu", ToString(btc_dominance), ".0%", "ga-shimesu-shijou-kouzou-wo-bunseki">>),
                     type |-> "analysis",
                     primaryData |-> PyDict([btcDominance |-> PyNum(btc_dominance)])] >>

\* _generate_trending_topics(trending_data): the first three trending coins
_generate_trending_topics(trending_data, clock) ==
    IF "coins" \notin DOMAIN trending_data.dict THEN <<>>
    ELSE LET trending_coins == SliceTo(trending_data.dict.coins, 3)
         IN [k \in 1..Len(trending_coins) |->
              LET coin_data == trending_coins[k].item
                  i == k - 1
              IN [id |-> <<"trending", coin_data.id>>,
                  title |-> PyText(<<"fire", " ", "kyuujoushou-torendo:">> \o coin_data.name \o <<"(">> \o coin_data.symbol
                                   \o <<")", "ga-kensaku-rankingu", ToString(i + 1), "i">>),
                  priority |-> IF i = 0 THEN "high" ELSE "medium",
                  score |-> (85 - i * 5) * 10,
                  coins |-> PyList(<<SymbolString(coin_data.symbol)>>),
                  collectedAt |-> PyTime(clock),
                  source |-> "CoinGecko-torendo",
                  summary |-> PyText(coin_data.name \o <<"ga-kyuugeki-ni-chuumoku-wo-atsumete-imasu">>),
                  type |-> "standard",
                  primaryData |-> PyDict([coin |-> SymbolString(coin_data.symbol), trendRank |-> PyNum(i + 1)])]]

RECURSIVE NewsLoop(_, _)
\* the loop of _generate_news_topics: an article without title, source or
\* summary raises KeyError and is passed over
NewsLoop(articles, clock) ==
    IF articles = <<>> THEN <<>>
    ELSE LET article == Head(articles)
         IN (IF ~({"title", "source", "summary"} \subseteq DOMAIN article) THEN <<>>
             ELSE << [id |-> <<"news">> \o article.title,
                      title |-> PyText(<<"newspaper", " ">> \o article.title),
                      priority |-> Get(article, "urgency", "medium"),
                      score |-> 60 * 10,
                      coins |-> PyList(Get(article, "coins", <<>>)),
                      collectedAt |-> Get(article, "published_at", PyTime(clock)),
                      source |-> article.source,
                      summary |-> PyText(article.summary),
                      type |-> "news",
                      primaryData |-> PyDict([newsSource |-> article.source, contentType |-> "news"])] >>)
            \o NewsLoop(Tail(articles), clock)

\* _generate_news_topics when fetch_crypto_news has the outcome `fetch`:
\* no topic when it raises
_generate_news_topics(fetch, clock) ==
    IF "raises" \in DOMAIN fetch THEN <<>> ELSE NewsLoop(SliceTo(fetch.articles, 15), clock)

\* _generate_regular_report_topics(market_data, global_data)
_generate_regular_report_topics(market_data, global_data, clock) ==
    << [id |-> <<"daily_report">>,
        title |-> PyText(<<"chart-up", " ", "kyou", "no-angou-tsuuka-shijou-samarii">>),
        priority |-> "medium",
        score |-> 70 * 10,
        coins |-> PyList(<<"BTC", "ETH">>),
        collectedAt |-> PyTime(clock),
        source |-> "shijou-deeta-tougou",
        summary |-> PyText(<<"kyou", "no-angou-tsuuka-shijou-zentai-no-doukou-wo-matomemasu">>),
        type |-> "analysis",
        primaryData |-> PyDict([marketDataAvailable |-> market_data # PyNone, globalDataAvailable |-> global_data # PyNone])] >>

\* _generate_fallback_topics()
_generate_fallback_topics(clock) ==
    << [id |-> <<"fallback_btc">>,
        title |-> PyText(<<"bar-chart", " ", "bittokoin-shijou-bunseki">>),
        priority |-> "medium",
        score |-> 75 * 10,
        coins |-> PyList(<<"BTC">>),
        collectedAt |-> PyTime(clock),
        source |-> "kihon-bunseki",
        summary |-> PyText(<<"bittokoin-no-genzai-no-shijou-joukyou">>),
        type |-> "analysis",
        primaryData |-> PyDict([coin |-> "BTC", fallback |-> TRUE])],
       [id |-> <<"fallback_eth">>,
        title |-> PyText(<<"crystal-ball", " ", "iisariamu-gijutsu-kaisetsu">>),
        priority |-> "medium",
        score |-> 70 * 10,
        coins |-> PyList(<<"ETH">>),
        collectedAt |-> PyTime(clock),
        source |-> "gijutsu-bunseki",
        summary |-> PyText(<<"iisariamu-no-saishin-gijutsu-doukou">>),
        type |-> "technical",
        primaryData |-> PyDict([coin |-> "ETH", fallback |-> TRUE])] >>

\* future.result(timeout=10) of a fetch with the outcome `fetch`: the data,
\* or None when the fetch failed (the client returns None) or timed out
FutureResult(fetch) == IF "data" \in DOMAIN fetch THEN fetch.data ELSE PyNone

\* `if v:` of None, a list or a dict
Truthy(v) == v # PyNone /\ (IsList(v) => v.list # <<>>) /\ (IsDict(v) => DOMAIN v.dict # {})

\* the largest number of topics generate_all_topics returns
MaxGenerated == 50

\* generate_all_topics() at clock reading `clock`, when the three CoinGecko
\* fetches and the news fetch have the outcomes given
generate_all_topics(fetch_market, fetch_trending, fetch_global, fetch_news, clock) ==
    LET market_data == FutureResult(fetch_market)
        trending_data == FutureResult(fetch_trending)
        global_data == FutureResult(fetch_global)
        movement == IF Truthy(market_data) THEN _generate_price_movement_topics(market_data.list, clock) ELSE <<>>
        levels == IF Truthy(market_data) THEN _generate_psychological_level_topics(market_data.list, clock) ELSE <<>>
        analysis == IF Truthy(market_data) THEN _generate_market_analysis_topics(market_data, global_data, clock) ELSE <<>>
        trending == IF Truthy(trending_data) THEN _generate_trending_topics(trending_data, clock) ELSE <<>>
    IN IF Truthy(market_data) /\ (_generate_price_movement_topics_raises(market_data.list)
                                  \/ _generate_psychological_level_topics_raises(market_data.list))
       THEN _generate_fallback_topics(clock)
       ELSE SliceTo(batch_score_topics(movement \o levels \o analysis \o trending
                                       \o _generate_news_topics(fetch_news, clock)
                                       \o _generate_regular_report_topics(market_data, global_data, clock), clock),
                    MaxGenerated)

(***************************************************************************)
(* The collectors and the generator under failing sources.                 *)
(***************************************************************************)
\* feeds read in one RSS collection
MaxFeeds == 2

\* the most topics of one collector that get_topics hands to add_topics
MaxAddedPerCollector == 25

Chars_Bitcoin == <<"B","i","t","c","o","i","n">>
Chars_Ethereum == <<"E","t","h","e","r","e","u","m">>
Chars_Solana == <<"S","o","l","a","n","a">>
TextRally == <<"B","T","C"," ","r","a","l","l","y"," ","a","f","t","e","r"," ","E","T","F"," ","n","e","w","s">>

\* RSS entries: two well-formed ones, and entries with an empty title, no
\* title, title None, and a number for a title
EntrySurges == [title |-> PyText(TitleSurges), summary |-> PyText(TextRally)]
EntryUpgrade == [title |-> PyText(TitleUpgrade), summary |-> PyText(<<>>), published_parsed |-> PyTime(0)]
EntryEmpty == [title |-> PyText(<<>>), summary |-> PyText(TextRally)]
EntryUntitled == [summary |-> PyText(TextStolen)]
EntryNone == [title |-> PyNone, summary |-> PyText(TextStolen)]
EntryNumber == [title |-> PyNum(7), summary |-> PyText(<<>>)]
EntryLawsuit == [title |-> PyText(TitleLawsuit)]

\* what fetching one feed can give: an exception, or its entries
FeedOutcomes ==
    { [raises |-> TRUE],
      [entries |-> <<EntrySurges, EntryEmpty>>],
      [entries |-> <<EntryUntitled, EntryUpgrade>>],
      [entries |-> <<EntryNone, EntryNumber, EntryLawsuit>>] }

\* the outcomes of the feeds of one collection
FeedLists == UNION { [1..n -> FeedOutcomes] : n \in 1..MaxFeeds }

\* the /coins/markets request of the price collector: an exception, an
\* error status, a mover with a coin that moved too little, and a coin
\* without price ahead of a mover
MoverOutcomes ==
    { [raises |-> TRUE],
      [status_code |-> 500],
      [status_code |-> 200,
       coins |-> << [id |-> "solana", symbol |-> <<"s","o","l">>, name |-> Chars_Solana,
                     current_price |-> PyNum(150), price_change_percentage_24h |-> 3],
                    [id |-> "bitcoin", symbol |-> <<"b","t","c">>, name |-> Chars_Bitcoin,
                     current_price |-> PyNum(60500), price_change_percentage_24h |-> 12] >>],
      [status_code |-> 200,
       coins |-> << [id |-> "ethereum", symbol |-> <<"e","t","h">>, name |-> Chars_Ethereum,
                     current_price |-> PyNone, price_change_percentage_24h |-> 0 - 11],
                    [id |-> "bitcoin", symbol |-> <<"b","t","c">>, name |-> Chars_Bitcoin,
                     current_price |-> PyNum(60500), price_change_percentage_24h |-> 12] >>] }

\* the /search/trending request of the price collector
TrendingOutcomes ==
    { [raises |-> TRUE],
      [status_code |-> 200, coins |-> << [item |-> [id |-> "solana", symbol |-> <<"S","O","L">>, name |-> Chars_Solana]] >>] }

\* the collection block of get_topics: each collector in its own try, the
\* first 25 topics of each handed to add_topics.  One cycle per behaviour,
\* on a manager as constructed.
CollectionCycle(feeds, fetch_movers, fetch_trending) ==
    LET rss == RSSFeedCollector_collect(feeds, now)
        price == PriceDataCollector_collect(fetch_movers, fetch_trending, now)
        m == AddLoop(AddLoop(Manager, SliceTo(rss, MaxAddedPerCollector), now), SliceTo(price, MaxAddedPerCollector), now)
    IN /\ call = NoCall
       /\ topics' = m.topics
       /\ processed_titles' = m.processed_titles
       /\ topic_history' = m.topic_history
       /\ call' = [op |-> "collection_cycle", feeds |-> feeds, fetch_movers |-> fetch_movers, fetch_trending |-> fetch_trending]
       /\ ret' = [rss |-> rss, price |-> price]
       /\ UNCHANGED <<now, raceVars, schedVars, manageVars, pipeVars>>

\* the three CoinGecko fetches of the generator: the client returned None,
\* the future timed out, or data arrived
MarketOutcomes ==
    { [failed |-> TRUE], [timeout |-> TRUE], [data |-> PyList(<<>>)],
      [data |-> PyList(<< [id |-> "bitcoin", symbol |-> <<"b","t","c">>, name |-> Chars_Bitcoin,
                           current_price |-> PyNum(60500), price_change_percentage_24h |-> PyNum(12)],
                          [id |-> "ethereum", symbol |-> <<"e","t","h">>, name |-> Chars_Ethereum,
                           current_price |-> PyNum(3500), price_change_percentage_24h |-> PyNum(0 - 22)],
                          [id |-> "solana", symbol |-> <<"s","o","l">>, name |-> Chars_Solana,
                           current_price |-> PyNum(150), price_change_percentage_24h |-> PyNone] >>)],
      [data |-> PyList(<< [symbol |-> <<"b","t","c">>, name |-> Chars_Bitcoin,
                           current_price |-> PyNum(60500), price_change_percentage_24h |-> PyNum(12)] >>)] }

GeneratorTrendingOutcomes ==
    { [failed |-> TRUE], [timeout |-> TRUE],
      [data |-> PyDict([coins |-> << [item |-> [id |-> "solana", symbol |-> <<"S","O","L">>, name |-> Chars_Solana]] >>])] }

GlobalOutcomes ==
    { [failed |-> TRUE], [timeout |-> TRUE],
      [data |-> PyDict([data |-> [market_cap_percentage |-> [btc |-> 52]]])] }

\* fetch_crypto_news: an exception, or articles, one of them without summary
NewsOutcomes ==
    { [raises |-> TRUE],
      [articles |-> <<>>],
      [articles |-> << [title |-> TitleLawsuit, source |-> "CoinDesk", summary |-> TextStolen, urgency |-> "high",
                        coins |-> <<"BTC">>],
                       [title |-> TitleUpgrade, source |-> "CoinDesk"] >>] }

\* generate_all_topics()
GenerateAllTopics(fetch_market, fetch_trending, fetch_global, fetch_news) ==
    /\ call = NoCall
    /\ call' = [op |-> "generate_all_topics", fetch_market |-> fetch_market, fetch_trending |-> fetch_trending,
                fetch_global |-> fetch_global, fetch_news |-> fetch_news]
    /\ ret' = generate_all_topics(fetch_market, fetch_trending, fetch_global, fetch_news, now)
    /\ UNCHANGED <<topics, processed_titles, topic_history, now, raceVars, schedVars, manageVars, pipeVars>>

NextCollect ==
    \/ \E feeds \in FeedLists, fetch_movers \in MoverOutcomes, fetch_trending \in TrendingOutcomes :
          CollectionCycle(feeds, fetch_movers, fetch_trending)
    \/ \E fetch_market \in MarketOutcomes, fetch_trending \in GeneratorTrendingOutcomes,
          fetch_global \in GlobalOutcomes, fetch_news \in NewsOutcomes :
          GenerateAllTopics(fetch_market, fetch_trending, fetch_global, fetch_news)

SpecCollect == Init /\ [][NextCollect]_vars

(***************************************************************************)
(* add_topics statement by statement, for callers that run together: the   *)
(* duplicate check, the append, and the two registrations are separate     *)
(* steps, and another caller may step between them.                        *)
(***************************************************************************)
\* the lists the callers hand to add_topics: one candidate, or two
\* different candidates in either order
RaceBatches(clock) ==
    LET C == StoreCandidates(clock)
    IN { <<c>> : c \in C } \cup { b \in C \X C : b[1] # b[2] }

\* the topics the calls in flight have yet to go through
Pending == LET Count[k \in 0..Cardinality(Writers)] ==
                 IF k = 0 THEN 0 ELSE Count[k - 1] + Len(writers[k].batch)
           IN Count[Cardinality(Writers)]

\* caller w enters add_topics(batch)
BeginAddTopics(w, batch) ==
    /\ writers[w].pc = "idle"
    /\ Len(topics) + Pending + Len(batch) <= MaxTopics
    /\ writers' = [writers EXCEPT ![w] = [pc |-> "check", batch |-> batch]]
    /\ overlapped' = (overlapped \/ \E other \in Writers \ {w} : writers[other].pc # "idle")
    /\ UNCHANGED <<topics, processed_titles, topic_history, now, call, ret, schedVars, manageVars, pipeVars>>

\* faulty variant: the check compares the title as written
WriterCheckCaseSensitive(w) ==
    /\ writers[w].pc = "check"
    /\ writers' = [writers EXCEPT ![w] =
                      IF writers[w].batch = <<>> THEN IdleWriter
                      ELSE IF _is_duplicate_case_sensitive(processed_titles, Head(writers[w].batch))
                           THEN [pc |-> "check", batch |-> Tail(writers[w].batch)]
                           ELSE [pc |-> "append", batch |-> writers[w].batch]]
    /\ UNCHANGED <<topics, processed_titles, topic_history, now, call, ret, overlapped, schedVars, manageVars, pipeVars>>

\* the head of the loop and `if self._is_duplicate(topic): continue`; the
\* call returns when the list is used up
WriterCheck(w) ==
    /\ writers[w].pc = "check"
    /\ writers' = [writers EXCEPT ![w] =
                      IF writers[w].batch = <<>> THEN IdleWriter
                      ELSE IF _is_duplicate(processed_titles, Head(writers[w].batch))
                           THEN [pc |-> "check", batch |-> Tail(writers[w].batch)]
                           ELSE [pc |-> "append", batch |-> writers[w].batch]]
    /\ UNCHANGED <<topics, processed_titles, topic_history, now, call, ret, overlapped, schedVars, manageVars, pipeVars>>

\* topic.score = self._calculate_score(topic); self.topics.append(topic)
WriterAppend(w) ==
    /\ writers[w].pc = "append"
    /\ topics' = Append(topics, [Head(writers[w].batch) EXCEPT !.score = _calculate_score(Head(writers[w].batch), now)])
    /\ writers' = [writers EXCEPT ![w].pc = "register"]
    /\ UNCHANGED <<processed_titles, topic_history, now, call, ret, overlapped, schedVars, manageVars, pipeVars>>

\* self.processed_titles.add(topic.title.lower())
WriterRegister(w) ==
    /\ writers[w].pc = "register"
    /\ processed_titles' = processed_titles \cup {Lower(Head(writers[w].batch).title)}
    /\ writers' = [writers EXCEPT ![w].pc = "record"]
    /\ UNCHANGED <<topics, topic_history, now, call, ret, overlapped, schedVars, manageVars, pipeVars>>

\* self.topic_history[topic.title.lower()] = topic.collected_at
WriterRecord(w) ==
    /\ writers[w].pc = "record"
    /\ topic_history' = DictSet(topic_history, Lower(Head(writers[w].batch).title), Head(writers[w].batch).collected_at)
    /\ writers' = [writers EXCEPT ![w] = [pc |-> "check", batch |-> Tail(writers[w].batch)]]
    /\ UNCHANGED <<topics, processed_titles, now, call, ret, overlapped, schedVars, manageVars, pipeVars>>

NextRace ==
    \/ \E w \in Writers, batch \in RaceBatches(now) : BeginAddTopics(w, batch)
    \/ \E w \in Writers : WriterCheck(w)
    \/ \E w \in Writers : WriterAppend(w)
    \/ \E w \in Writers : WriterRegister(w)
    \/ \E w \in Writers : WriterRecord(w)

SpecRace == Init /\ [][NextRace]_vars

(***************************************************************************)
(* TopicCollectionScheduler of scheduler.py.  _collect_topics_job is a     *)
(* coroutine: it runs without interruption up to its next await, so the    *)
(* test of is_collecting and its setting are one step.                     *)
(***************************************************************************)
\* the job body is entered this many times at most
MaxRuns == 2

\* how the awaited POST /api/topics/collect can end: status 200 without and
\* with a taskId, status 200 with a body that cannot be read, another
\* status, a timeout, a refused connection, another exception
ResponseOutcomes == {"ok", "ok_task", "unreadable", "http_error", "timeout", "connect_error", "error"}

\* faulty variant: the body is entered without looking at is_collecting
StartJobUnguarded(j) ==
    /\ jobs[j].pc = "idle"
    /\ collection_count + error_count < MaxRuns
    /\ is_collecting' = TRUE
    /\ jobs' = [jobs EXCEPT ![j] = [pc |-> "posting", start_time |-> now]]
    /\ call' = [op |-> "_collect_topics_job", job |-> j, skipped |-> FALSE]
    /\ UNCHANGED <<collection_count, error_count, last_collection_time>>
    /\ UNCHANGED <<topics, processed_titles, topic_history, now, ret, raceVars, manageVars, pipeVars>>

\* invocation j of _collect_topics_job starts: it returns at once while
\* is_collecting is set, and otherwise sets it, notes the time and awaits the
\* POST
StartJob(j) ==
    /\ jobs[j].pc = "idle"
    /\ IF is_collecting
       THEN /\ call' = [op |-> "_collect_topics_job", job |-> j, skipped |-> TRUE]
            /\ UNCHANGED schedVars
       ELSE /\ collection_count + error_count < MaxRuns
            /\ is_collecting' = TRUE
            /\ jobs' = [jobs EXCEPT ![j] = [pc |-> "posting", start_time |-> now]]
            /\ call' = [op |-> "_collect_topics_job", job |-> j, skipped |-> FALSE]
            /\ UNCHANGED <<collection_count, error_count, last_collection_time>>
    /\ UNCHANGED <<topics, processed_titles, topic_history, now, ret, raceVars, manageVars, pipeVars>>

\* faulty variant: the flag is cleared at the end of the try block, not in a
\* finally block, so an exception leaves it set
RespondWithoutFinally(j, outcome) ==
    /\ jobs[j].pc = "posting"
    /\ IF outcome \in {"ok", "ok_task"}
       THEN /\ last_collection_time' = jobs[j].start_time
            /\ collection_count' = collection_count + 1
            /\ UNCHANGED error_count
       ELSE /\ error_count' = error_count + 1
            /\ UNCHANGED <<last_collection_time, collection_count>>
    /\ IF outcome = "ok_task"
       THEN /\ jobs' = [jobs EXCEPT ![j].pc = "monitoring"]
            /\ UNCHANGED is_collecting
       ELSE /\ jobs' = [jobs EXCEPT ![j] = IdleJob]
            /\ is_collecting' = (outcome \in {"unreadable", "timeout", "connect_error", "error"} /\ is_collecting)
    /\ call' = [op |-> "response", job |-> j, outcome |-> outcome]
    /\ UNCHANGED <<topics, processed_titles, topic_history, now, ret, raceVars, manageVars, pipeVars>>

\* the POST of invocation j ends with `outcome`: the statistics are updated,
\* and unless the task is to be monitored the finally block clears the flag
Respond(j, outcome) ==
    /\ jobs[j].pc = "posting"
    /\ IF outcome \in {"ok", "ok_task"}
       THEN /\ last_collection_time' = jobs[j].start_time
            /\ collection_count' = collection_count + 1
            /\ UNCHANGED error_count
       ELSE /\ error_count' = error_count + 1
            /\ UNCHANGED <<last_collection_time, collection_count>>
    /\ IF outcome = "ok_task"
       THEN /\ jobs' = [jobs EXCEPT ![j].pc = "monitoring"]
            /\ UNCHANGED is_collecting
       ELSE /\ jobs' = [jobs EXCEPT ![j] = IdleJob]
            /\ is_collecting' = FALSE
    /\ call' = [op |-> "response", job |-> j, outcome |-> outcome]
    /\ UNCHANGED <<topics, processed_titles, topic_history, now, ret, raceVars, manageVars, pipeVars>>

\* _monitor_collection_task returns to invocation j (it raises nothing), and
\* the finally block clears the flag
MonitorReturns(j) ==
    /\ jobs[j].pc = "monitoring"
    /\ jobs' = [jobs EXCEPT ![j] = IdleJob]
    /\ is_collecting' = FALSE
    /\ call' = [op |-> "monitor_returned", job |-> j]
    /\ UNCHANGED <<collection_count, error_count, last_collection_time>>
    /\ UNCHANGED <<topics, processed_titles, topic_history, now, ret, raceVars, manageVars, pipeVars>>

NextSched ==
    \/ \E j \in Jobs : StartJob(j)
    \/ \E j \in Jobs, outcome \in ResponseOutcomes : Respond(j, outcome)
    \/ \E j \in Jobs : MonitorReturns(j)
    \/ Tick

SpecSched == Init /\ [][NextSched]_vars

\* the awaited POST ends (its client has a timeout of 30 s), and so does the
\* monitoring of the task (at most 24 status requests with a timeout of 10 s
\* and a pause of 5 s each)
SpecSchedFair ==
    /\ SpecSched
    /\ WF_vars(\E j \in Jobs, outcome \in ResponseOutcomes : Respond(j, outcome))
    /\ WF_vars(\E j \in Jobs : MonitorReturns(j))

(***************************************************************************)
(* add_topics with degenerate titles: the empty title and titles of        *)
(* whitespace only have no words, so _calculate_similarity answers 0.0 for *)
(* them.                                                                   *)
(***************************************************************************)
TitleEmpty == <<>>
TitleBlank == <<" ">>
TitleBlanks == <<" ", " ">>

\* candidates with a degenerate title, in two profiles each, and a candidate
\* with words
DegenerateCandidates(clock) ==
    { CollectedTopic(t, p.source, p.priority, p.coins, p.keywords, clock - p.age, p.score) :
        t \in {TitleEmpty, TitleBlank, TitleBlanks, TitleSurges}, p \in Profiles }

NextDegenerate ==
    \/ \E c \in DegenerateCandidates(now) : AddTopics(<<c>>)
    \/ Tick

SpecDegenerate == Init /\ [][NextDegenerate]_vars

(***************************************************************************)
(* The management interface of api_server.py on the TopicManager:          *)
(* update_topic and delete_topic.  A topic_id is str(hash(topic.title));   *)
(* the model writes the title itself for it.  An HTTPException raised      *)
(* inside the handler's try is caught by its `except Exception` and sent   *)
(* as status 500.                                                          *)
(***************************************************************************)
\* the first index of the topic with the given id, 0 when there is none
FindTopic(topic_id) ==
    IF \E i \in 1..Len(topics) : topics[i].title = topic_id
    THEN CHOOSE i \in 1..Len(topics) :
            topics[i].title = topic_id /\ \A j \in 1..(i - 1) : topics[j].title # topic_id
    ELSE 0

\* list.pop(i)
Pop(s, i) == SubSeq(s, 1, i - 1) \o SubSeq(s, i + 1, Len(s))

\* faulty variant: the title of the removed topic is discarded from the seen
\* titles and from the title history as well
DeleteTopicForgetting(topic_id) ==
    LET topic_index == FindTopic(topic_id)
        key == Lower(topic_id)
    IN /\ call' = [op |-> "delete_topic", topic_id |-> topic_id]
       /\ IF topic_index = 0
          THEN /\ ret' = [status |-> 500]
               /\ UNCHANGED <<topics, processed_titles, topic_history, deleted>>
          ELSE /\ topics' = Pop(topics, topic_index)
               /\ processed_titles' = processed_titles \ {key}
               /\ topic_history' = [k \in DOMAIN topic_history \ {key} |-> topic_history[k]]
               /\ deleted' = deleted \cup {topic_id}
               /\ ret' = [status |-> 200]
       /\ UNCHANGED <<now, raceVars, schedVars, pipeVars>>

\* DELETE /api/topics/{topic_id}
DeleteTopic(topic_id) ==
    LET topic_index == FindTopic(topic_id)
    IN /\ call' = [op |-> "delete_topic", topic_id |-> topic_id]
       /\ IF topic_index = 0
          THEN /\ ret' = [status |-> 500]
               /\ UNCHANGED <<topics, deleted>>
          ELSE /\ topics' = Pop(topics, topic_index)
               /\ deleted' = deleted \cup {topic_id}
               /\ ret' = [status |-> 200]
       /\ UNCHANGED <<processed_titles, topic_history, now, raceVars, schedVars, pipeVars>>

\* PUT /api/topics/{topic_id} with the dict `updates`: the title is assigned
\* first; a 'priority' key then raises at the import of a name that
\* src.topic_collector does not define, before the score is looked at
UpdateTopic(topic_id, updates) ==
    LET i == FindTopic(topic_id)
        titled == IF "title" \in DOMAIN updates THEN [topics[i] EXCEPT !.title = updates.title] ELSE topics[i]
        scored == IF "score" \in DOMAIN updates /\ "priority" \notin DOMAIN updates
                  THEN [titled EXCEPT !.score = updates.score * ScoreScale] ELSE titled
    IN /\ call' = [op |-> "update_topic", topic_id |-> topic_id, updates |-> updates]
       /\ IF i = 0
          THEN /\ ret' = [status |-> 500]
               /\ UNCHANGED topics
          ELSE /\ topics' = [topics EXCEPT ![i] = scored]
               /\ ret' = [status |-> IF "priority" \in DOMAIN updates THEN 500 ELSE 200]
       /\ UNCHANGED <<processed_titles, topic_history, now, raceVars, schedVars, manageVars, pipeVars>>

\* the titles the interface is called with, and the update requests
ManageTitles == {TitleSurges, TitleSurgesCaps, TitleLawsuit}
ManageUpdates ==
    { [title |-> t] : t \in ManageTitles }
      \cup { [score |-> 0], [priority |-> "high"], [title |-> TitleLawsuit, priority |-> "high", score |-> 0] }

\* the requests of the interface, and add_topics with one candidate of a
\* collector between them
NextManage ==
    \/ \E c \in StoreCandidates(now) : AddTopics(<<c>>)
    \/ \E topic_id \in ManageTitles : DeleteTopic(topic_id)
    \/ \E topic_id \in ManageTitles, updates \in ManageUpdates : UpdateTopic(topic_id, updates)

SpecManage == Init /\ [][NextManage]_vars

(***************************************************************************)
(* ArticleQuota and ArticlePipeline.generate_articles of                   *)
(* backend/src/article_pipeline.py.  datetime.now() is read in             *)
(* can_generate and again in increment, after the article has been         *)
(* generated and saved; the clock may have passed into the next hour       *)
(* between the two.  The limits are fields of PipelineConfig (defaults 10  *)
(* per hour and 50 per day); the model runs with small ones.               *)
(***************************************************************************)
\* PipelineConfig of the modelled pipeline
max_articles_per_hour == 1
max_articles_per_day == 2
\* min_topic_score, in points
min_topic_score == 30
\* the store of the pipeline is not added to beyond this many topics: one
\* more than a day's limit
MaxPipelineTopics == max_articles_per_day + 1
HoursPerDay == 24
\* the clock is followed through the first hours of a day and its last
\* hour, on the day of construction and the day after
LastHour == HoursPerDay - 1

\* datetime.now().hour and datetime.now().date() (days since the start)
HourOf(clock) == (clock \div UnitsPerHour) % HoursPerDay
DateOf(clock) == clock \div (HoursPerDay * UnitsPerHour)

\* the fields of the ArticleQuota as one record
Quota ==
    [daily_count |-> daily_count, hourly_count |-> hourly_count,
     last_reset_date |-> last_reset_date, last_reset_hour |-> last_reset_hour,
     generation_history |-> generation_history]

\* ArticleQuota.can_generate at clock reading `clock`: the quota after the
\* resets, and the answer
can_generate(q, clock) ==
    LET q1 == IF DateOf(clock) > q.last_reset_date
              THEN [q EXCEPT !.daily_count = 0, !.last_reset_date = DateOf(clock)] ELSE q
        q2 == IF HourOf(clock) # q1.last_reset_hour
              THEN [q1 EXCEPT !.hourly_count = 0, !.last_reset_hour = HourOf(clock)] ELSE q1
    IN [q |-> q2,
        ok |-> ~(q2.daily_count >= max_articles_per_day) /\ ~(q2.hourly_count >= max_articles_per_hour)]

\* ArticleQuota.increment at clock reading `clock`
increment(q, clock, article_info) ==
    [q EXCEPT !.daily_count = @ + 1,
              !.hourly_count = @ + 1,
              !.generation_history = Append(@, [timestamp |-> clock, article |-> article_info])]

\* how the try block of one loop iteration goes: the article is generated
\* and saved within the clock hour of the quota check, or only in the next
\* clock hour, or an exception is raised before the topic is marked
GenerationOutcomes == {"generated", "generated_late", "failed"}

RECURSIVE GenerateLoop(_, _, _, _)
\* the loop of generate_articles over unprocessed_topics from index i, on
\* the state s = [q, processed, clock, failed]; failed are the titles whose
\* try block raised
GenerateLoop(s, unprocessed_topics, outcomes, i) ==
    IF i > Len(unprocessed_topics) THEN s
    ELSE LET check == can_generate(s.q, s.clock)
             topic == unprocessed_topics[i]
             done == IF outcomes[i] = "generated_late" THEN s.clock + UnitsPerHour ELSE s.clock
         IN IF ~check.ok THEN [s EXCEPT !.q = check.q]
            ELSE IF outcomes[i] = "failed"
                 THEN GenerateLoop([s EXCEPT !.q = check.q, !.failed = @ \cup {topic.title}],
                                   unprocessed_topics, outcomes, i + 1)
                 ELSE GenerateLoop([q |-> increment(check.q, done, [title |-> topic.title]),
                                    processed |-> s.processed \cup {topic.title},
                                    clock |-> done,
                                    failed |-> s.failed],
                                   unprocessed_topics, outcomes, i + 1)

\* [t for t in top_topics if t.title not in self.processed_topics]
Unprocessed(top_topics, processed) ==
    LET keep(t) == t.title \notin processed
    IN SelectSeq(top_topics, keep)

\* ArticlePipeline.generate_articles, the try block of iteration i going as
\* outcomes[i]; the run is over within the hours the clock is followed
GenerateArticles ==
    LET first == can_generate(Quota, now)
        top_topics == get_top_topics(topics, max_articles_per_hour, min_topic_score * ScoreScale)
        unprocessed_topics == IF first.ok THEN Unprocessed(top_topics, processed_topics) ELSE <<>>
        start == [q |-> first.q, processed |-> processed_topics, clock |-> now, failed |-> {}]
    IN \E outcomes \in [1..Len(unprocessed_topics) -> GenerationOutcomes] :
         LET end == GenerateLoop(start, unprocessed_topics, outcomes, 1)
         IN /\ DateOf(end.clock) <= 1
            /\ HourOf(end.clock) <= 2 \/ end.clock = now
            /\ daily_count' = end.q.daily_count
            /\ hourly_count' = end.q.hourly_count
            /\ last_reset_date' = end.q.last_reset_date
            /\ last_reset_hour' = end.q.last_reset_hour
            /\ generation_history' = end.q.generation_history
            /\ processed_topics' = end.processed
            /\ now' = end.clock
            /\ call' = [op |-> "generate_articles", clock_before |-> now,
                        history_before |-> Len(generation_history), failed |-> end.failed]
            /\ ret' = <<>>
            /\ UNCHANGED <<topics, processed_titles, topic_history, raceVars, schedVars, manageVars>>

\* the titles of the topics the collectors bring, in this order
PipelineTitles == << <<"a">>, <<"b">>, <<"c">>, <<"d">>, <<"e">>, <<"f">> >>

\* the k-th topic the collectors bring: an URGENT topic with k keywords, so
\* that it scores above the topics brought before it
PipelineTopic(k, clock) ==
    CollectedTopic(PipelineTitles[k], "rss_feed", "URGENT", <<>>, [i \in 1..k |-> "kw"], clock, 0)

\* collect_topics brings the next topic
CollectTopic ==
    /\ Len(topics) < MaxPipelineTopics
    /\ add_topics(<<PipelineTopic(Len(topics) + 1, now)>>)

\* the clock reaches the second hour of the day, or the last hour of the
\* first day, or from there the day after
PipelineTick ==
    /\ \/ /\ HourOf(now) = 0
          /\ now' = now + UnitsPerHour
       \/ /\ HourOf(now) < LastHour /\ DateOf(now) = 0
          /\ now' = LastHour * UnitsPerHour
       \/ /\ HourOf(now) = LastHour /\ DateOf(now) = 0
          /\ now' = now + UnitsPerHour
    /\ call' = NoCall
    /\ ret' = <<>>
    /\ UNCHANGED <<topics, processed_titles, topic_history, raceVars, schedVars, manageVars, pipeVars>>

NextPipeline ==
    \/ CollectTopic
    \/ GenerateArticles
    \/ PipelineTick

\* ArticlePipeline.__init__ constructs its TopicManager and its ArticleQuota
SpecPipeline == Init /\ [][NextPipeline]_vars

(***************************************************************************)
(* Properties of the duplicate check (C1 - C4).                            *)
(***************************************************************************)
\* the last call was add_topics
Added == call.op = "add_topics"

\* the topics that were retained before the last call (the store only grows
\* at its end)
StoredBefore == SubSeq(topics, 1, call.len_before)

\* a and b are the same title once case is folded
SameFolded(a, b) == Lower(a) = Lower(b)

\* 5 * |A n B| > 4 * |A u B| for the word sets of the folded titles: their
\* Jaccard similarity is above 0.8
JaccardAbove(a, b) ==
    LET A == Words(Lower(a))
        B == Words(Lower(b))
    IN 5 * Cardinality(A \cap B) > 4 * Cardinality(A \cup B)

\* 5 * |A n B| = 4 * |A u B|: the similarity is exactly 0.8
JaccardExactly(a, b) ==
    /\ Words(Lower(a)) # {}
    /\ 5 * Cardinality(Words(Lower(a)) \cap Words(Lower(b))) = 4 * Cardinality(Words(Lower(a)) \cup Words(Lower(b)))

\* title a is a duplicate of title b in the sense of the Deduplicator
Resembles(a, b) == SameFolded(a, b) \/ JaccardAbove(a, b)

\* the same topic, whatever its score
SameButScore(t, u) == [t EXCEPT !.score = 0] = [u EXCEPT !.score = 0]

\* the case of C1: add_topics([t1, t2]) with titles equal after case
\* folding, t1 no duplicate of a topic retained before
C1_Case ==
    /\ Added
    /\ Len(call.batch) = 2
    /\ SameFolded(call.batch[1].title, call.batch[2].title)
    /\ \A i \in 1..call.len_before : ~Resembles(topics[i].title, call.batch[1].title)

\* C1: add_topics([t1, t2]) with titles identical after case folding, t1 not
\* a duplicate of anything retained, grows the store by exactly one topic,
\* and that topic is t1
C1_FoldedPairGrowsStoreByOne ==
    C1_Case =>
        /\ Len(topics) = call.len_before + 1
        /\ SameButScore(topics[Len(topics)], call.batch[1])

\* C1 happens with two titles that differ as written
C1_Witness ==
    /\ C1_Case
    /\ call.batch[1].title # call.batch[2].title
    /\ Len(topics) = call.len_before + 1

C3_Case ==
    /\ Added
    /\ call.batch # <<>>
    /\ Len(call.batch) = 1
    /\ call.batch[1].title = TitleSurgesBy
    /\ \E i \in 1..call.len_before : topics[i].title = TitleSurges

\* C3 as claimed: with "Bitcoin surges 10%" retained, "Bitcoin surges by 10%"
\* is rejected and the store does not grow
C3_AsClaimed == C3_Case => Len(topics) = call.len_before

\* C3, amended: with "Bitcoin surges 10%" retained, "Bitcoin surges by 10%"
\* (similarity 3/4) is accepted and the store grows by one, unless another
\* retained title equals or resembles the new one
C3_SurgesByIsAccepted ==
    (C3_Case /\ \A i \in 1..call.len_before : SameFolded(topics[i].title, TitleSurges) \/ ~Resembles(topics[i].title, TitleSurgesBy))
        => /\ Len(topics) = call.len_before + 1
           /\ SameButScore(topics[Len(topics)], call.batch[1])

\* C3 happens: both titles are retained after the call
C3_Witness ==
    /\ C3_Case
    /\ Len(topics) = call.len_before + 1
    /\ topics[Len(topics)].title = TitleSurgesBy

\* C4: no two retained topics have folded titles whose word-set Jaccard
\* similarity is 0.8 or more
C4_NoTwoRetainedAtOrAboveThreshold ==
    \A i, j \in 1..Len(topics) :
        i # j => ~(JaccardAbove(topics[i].title, topics[j].title) \/ JaccardExactly(topics[i].title, topics[j].title))

(***************************************************************************)
(* Properties of the retrieval operations (C5, C6).                        *)
(***************************************************************************)
\* C5 as claimed, for the counts n >= 0: get_top_topics(n, minScore) returns
\* at most n topics, strictly descending by score, each with score >= minScore
C5_AsClaimed ==
    (call.op = "get_top_topics" /\ call.count >= 0) =>
        /\ Len(ret) <= call.count
        /\ \A i \in 1..(Len(ret) - 1) : ret[i].score > ret[i + 1].score
        /\ \A i \in 1..Len(ret) : ret[i].score >= call.min_score

\* C5, amended: for n >= 0 get_top_topics(n, minScore) returns at most n
\* topics; for every n the result never ascends by score (equal scores may
\* follow each other) and every score in it is >= minScore
C5_TopIsBoundedAndNeverAscends ==
    call.op = "get_top_topics" =>
        /\ call.count >= 0 => Len(ret) <= call.count
        /\ \A i \in 1..(Len(ret) - 1) : ret[i].score >= ret[i + 1].score
        /\ \A i \in 1..Len(ret) : ret[i].score >= call.min_score

\* C5 happens: a result of two or more topics, two of them with equal scores
C5_Witness ==
    /\ call.op = "get_top_topics"
    /\ call.count >= 2
    /\ Len(ret) >= 2
    /\ ret[1].score = ret[2].score

\* the coin list of topic t contains symbol
HasCoin(t, symbol) == \E k \in 1..Len(t.coins) : t.coins[k] = symbol

\* C6: get_topics_by_coin(symbol) returns exactly the retained topics whose
\* coin list contains symbol: each of them once, and nothing else
C6_ByCoinIsExactlyTheMatches ==
    call.op = "get_topics_by_coin" =>
        /\ \A i \in 1..Len(topics) : HasCoin(topics[i], call.coin) => \E j \in 1..Len(ret) : ret[j] = topics[i]
        /\ \A j \in 1..Len(ret) : HasCoin(ret[j], call.coin) /\ \E i \in 1..Len(topics) : topics[i] = ret[j]
        /\ Len(ret) = Cardinality({i \in 1..Len(topics) : HasCoin(topics[i], call.coin)})

\* C6 happens: some retained topics carry the symbol and some do not
C6_Witness ==
    /\ call.op = "get_topics_by_coin"
    /\ ret # <<>>
    /\ Len(ret) < Len(topics)
    /\ \E j \in 1..Len(ret) : ret[j].coins[1] # call.coin

(***************************************************************************)
(* Frame of the scores (C10).                                              *)
(***************************************************************************)
\* C10: no call of add_topics, get_top_topics, get_topics_by_coin or
\* generate_topic_report and no passing of time changes a retained topic or
\* its score; the retrieval calls and the clock leave the whole store as it is
C10_ScoresAreWrittenOnce ==
    [][/\ Len(topics') >= Len(topics)
       /\ \A i \in 1..Len(topics) : topics'[i] = topics[i]
       /\ call'.op # "add_topics" =>
            /\ topics' = topics
            /\ processed_titles' = processed_titles
            /\ topic_history' = topic_history]_vars

\* C10 happens: time has passed since a topic was scored at age 0, more
\* topics were added and the store was read, and the topic's score is still
\* the undecayed one
C10_Witness ==
    /\ now > 0
    /\ call.op = "generate_topic_report"
    /\ Len(topics) >= 2
    /\ \E i \in 1..Len(topics) :
          /\ topics[i].collected_at = 0
          /\ topics[Len(topics)].collected_at > topics[i].collected_at
          /\ topics[i].score = _calculate_score([topics[i] EXCEPT !.score = 0], 0)
          /\ topics[i].score # _calculate_score([topics[i] EXCEPT !.score = 0], now)

(***************************************************************************)
(* Properties of the score (C7 - C9).                                      *)
(***************************************************************************)
\* the last call handed over one topic and it was retained
AddedOne == Added /\ Len(call.batch) = 1 /\ Len(topics) = call.len_before + 1

\* the topic as it was handed over, as it is retained, and its age then
Given == call.batch[1]
Kept == topics[Len(topics)]
AgeAtInsertion == now - Given.collected_at

\* basePriority, in points
BasePriority(p) ==
    CASE p = "URGENT" -> 100 [] p = "HIGH" -> 80 [] p = "MEDIUM" -> 60 [] p = "LOW" -> 40 [] p = "SCHEDULED" -> 20

\* 10 * (2 x |keywords| + 5 x |coins|) points + preexistingSignal, in score
\* units: ten times the part of the score that does not decay
TenTimesBonus(t) == 10 * (2 * Len(t.keywords) + 5 * Len(t.coins)) * ScoreScale + t.score

ScoreAtAge(a) == _calculate_score([Given EXCEPT !.collected_at = now - a], now)

\* the score never rises with the age
C8_Monotone == \A a \in ScoreAges : a >= AgeAtInsertion => ScoreAtAge(a) <= Kept.score

C9_Case ==
    /\ AddedOne
    /\ Given.priority = "URGENT"
    /\ Given.keywords = <<>> /\ Given.coins = <<>> /\ Given.score = 0
    /\ AgeAtInsertion = 0

\* C9: an URGENT topic with no keywords, no coins and no signal, scored at
\* age 0, is stored with score exactly 100
C9_FreshUrgentScoresHundred == C9_Case => Kept.score = 100 * ScoreScale

\* C9 happens
C9_Witness == C9_Case /\ Kept.title = Given.title

(***************************************************************************)
(* Properties of whole batches and of the report (C11, C12).               *)
(***************************************************************************)
\* C11: add_topics is idempotent on a repeated batch: when add_topics(B) is
\* called directly after add_topics(B), the second call leaves the retained
\* topics, their scores and the set of seen titles as the first left them.
C11_RepeatedBatchChangesNothing ==
    [][(call.op = "add_topics" /\ call'.op = "add_topics" /\ call'.batch = call.batch)
         => (topics' = topics /\ processed_titles' = processed_titles)]_vars

\* a non-empty batch was handed over whose titles are all titles of topics
\* retained before the call, as on its second delivery, and nothing grew
C11_Witness ==
    /\ Added
    /\ Len(call.batch) = 2
    /\ Len(topics) = call.len_before
    /\ \A i \in 1..Len(call.batch) : \E k \in 1..Len(StoredBefore) : StoredBefore[k].title = call.batch[i].title

RECURSIVE SumOf(_, _)
\* the sum of f over the set S
SumOf(f, S) == IF S = {} THEN 0 ELSE LET x == CHOOSE x \in S : TRUE IN f[x] + SumOf(f, S \ {x})

\* the candidates of the batch b that carry the title of a topic of ts
TitleRetained(b, ts) == {i \in 1..Len(b) : \E k \in 1..Len(ts) : ts[k].title = b[i].title}

\* candidate i of the batch b resembles no topic of ts and no other candidate
Fresh(b, ts, i) ==
    /\ \A k \in 1..Len(ts) : ~Resembles(b[i].title, ts[k].title)
    /\ \A j \in (1..Len(b)) \ {i} : ~Resembles(b[i].title, b[j].title)

\* three candidates, exactly one with the title of a retained topic, the
\* other two duplicates of nothing
C12_Case(b, ts) ==
    /\ Len(b) = 3
    /\ Cardinality(TitleRetained(b, ts)) = 1
    /\ \A i \in (1..Len(b)) \ TitleRetained(b, ts) : Fresh(b, ts, i)

\* C12: when a collector emits three topics of which exactly one has the
\* title of a retained topic and the others are duplicates of nothing, the
\* store grows by two, and the report's counts by priority and by source
\* are the counts before plus those of the two new entries, each set of
\* counts summing to the size of the store.
C12_BatchOfThreeGrowsStoreAndCountsByTwo ==
    [][(call'.op = "add_topics" /\ C12_Case(call'.batch, topics))
         => LET b == call'.batch
                new == (1..Len(b)) \ TitleRetained(b, topics)
                before == generate_topic_report(topics)
                after == generate_topic_report(topics')
            IN /\ Len(topics') = Len(topics) + 2
               /\ \A p \in TopicPriority :
                     after.priority_count[p] = before.priority_count[p] + Cardinality({i \in new : b[i].priority = p})
               /\ \A src \in TopicSource :
                     after.source_count[src] = before.source_count[src] + Cardinality({i \in new : b[i].source = src})
               /\ SumOf(after.priority_count, TopicPriority) = Len(topics')
               /\ SumOf(after.source_count, TopicSource) = Len(topics')]_vars

C12_Witness ==
    /\ Added
    /\ C12_Case(call.batch, StoredBefore)
    /\ Len(topics) = call.len_before + 2

(***************************************************************************)
(* Properties of the saved file (C18).                                     *)
(***************************************************************************)
\* the lowercase tags of the two enumerations
LowercaseTags == {"urgent", "high", "medium", "low", "scheduled"} \cup {TopicSource_value[src] : src \in TopicSource}

IsLowercaseTag(v) == v \in {JsonStr(t) : t \in LowercaseTags}

\* C18: save_topics emits every enum field (source and priority) of every
\* topic as a lowercase string tag such as "rss_feed" or "urgent".
C18_EnumsAreSavedAsLowercaseTags ==
    call.op = "save_topics" =>
        \A i \in 1..Len(ret) : IsLowercaseTag(ret[i].source) /\ IsLowercaseTag(ret[i].priority)

(***************************************************************************)
(* Properties of the category-driven scorer (C13 - C15).                   *)
(***************************************************************************)
ScoredContent == call.op = "score_content"
ScoredBatch == call.op = "batch_score_topics"

\* the arguments of the last score_content call have the declared types
\* (or are None where None is allowed)
WellTyped ==
    /\ IsText(call.title) /\ IsText(call.summary)
    /\ (call.coins = PyNone \/ IsList(call.coins))
    /\ (call.price_change = PyNone \/ IsNum(call.price_change))

\* the published time is given but cannot be read as a time
TimeUnreadable == IsText(call.published_time) /\ call.published_time.text # <<>>

\* the factors of the formula, from the arguments of the last call
ClaimedText == Lower(call.title.text \o <<" ">> \o call.summary.text)
ClaimedCategoryScores ==
    { scoring_rules[i].base_score
        + scoring_rules[i].weight * Cardinality({kw \in {scoring_rules[i].keywords[k] : k \in 1..Len(scoring_rules[i].keywords)} : Contains(ClaimedText, kw)})
      : i \in 1..Len(scoring_rules) }
ClaimedContent == CHOOSE m \in ClaimedCategoryScores : \A x \in ClaimedCategoryScores : m >= x
ClaimedBonus ==
    IF call.price_change = PyNone THEN 0
    ELSE LET a == Abs(call.price_change.num)
         IN IF a >= 20 THEN 30 ELSE IF a >= 15 THEN 20 ELSE IF a >= 8 THEN 15 ELSE IF a >= 5 THEN 10 ELSE IF a >= 2 THEN 5 ELSE 0
ClaimedCoin ==
    LET known == IF call.coins = PyNone THEN {}
                 ELSE {coin_importance[call.coins.list[i]] : i \in {k \in 1..Len(call.coins.list) : call.coins.list[k] \in DOMAIN coin_importance}}
        all == known \cup {10}
    IN CHOOSE m \in all : \A x \in all : m >= x
ClaimedTime ==
    IF ~IsTime(call.published_time) THEN 10
    ELSE LET age == now - call.published_time.time
         IN IF age <= UnitsPerHour THEN 10
            ELSE IF age <= 6 * UnitsPerHour THEN 9
            ELSE IF age <= 24 * UnitsPerHour THEN 8
            ELSE IF age <= 48 * UnitsPerHour THEN 6
            ELSE IF age <= 7 * 24 * UnitsPerHour THEN 4
            ELSE 2

\* clamp to 0..100 points, in hundredths
Clamp(x) == Min(100 * 100, Max(0, x))

\* C13 as stated: the returned score is clamp((contentScore + priceBonus)
\* * coinMultiplier * timeMultiplier, 0, 100) with contentScore the largest
\* base + weight * hits of any category.
C13_AsClaimed ==
    (ScoredContent /\ WellTyped /\ IsTime(call.published_time))
        => ret.score * 10 = Clamp((ClaimedContent + ClaimedBonus) * ClaimedCoin * ClaimedTime)

\* C13, amended: the returned score is clamp((contentScore + priceBonus) *
\* coinMultiplier * timeMultiplier, 0, 100) rounded to one decimal, where
\* contentScore is the largest base + weight * hits of any category capped
\* at 100, priceBonus is 5/10/15/20 for |change| >= 2/5/8/15 (times 1.5 from
\* 20, 0 below 2 or when absent), coinMultiplier the largest table entry of
\* the coins (1.0 by default), and timeMultiplier 1.0/0.9/0.8/0.6/0.4 for an
\* age of at most 1h/6h/24h/48h/7d, 0.2 beyond, 1.0 when no readable time is
\* given.
C13_ScoreIsTheCappedRoundedFormula ==
    (ScoredContent /\ WellTyped)
        => LET final == Clamp((Min(100, ClaimedContent) + ClaimedBonus) * ClaimedCoin * ClaimedTime)
           IN /\ ret.score * 10 - final <= 5
              /\ final - ret.score * 10 <= 5

\* a title with two urgent keywords (140 before the cap) older than two
\* days: 100 * 0.4 = 40 points are returned, not 140 * 0.4 = 56
C13_Witness ==
    /\ ScoredContent /\ WellTyped
    /\ ClaimedContent > 100
    /\ ClaimedBonus = 0 /\ ClaimedCoin = 10 /\ ClaimedTime = 4
    /\ ret.score = 40 * 10

\* C14: the returned priority is determined by the returned score with the
\* boundaries at 85, 70 and 50: "urgent" from 85, "high" from 70, "medium"
\* from 50, "low" below.
C14_PriorityFollowsReturnedScore ==
    ScoredContent =>
        ret.priority = (IF ret.score >= 85 * 10 THEN "urgent"
                        ELSE IF ret.score >= 70 * 10 THEN "high"
                        ELSE IF ret.score >= 50 * 10 THEN "medium"
                        ELSE "low")

\* results next to the boundaries: 84 points are "high", 69 are "medium"
C14_Witness ==
    /\ ScoredContent
    /\ \/ ret.score = 84 * 10 /\ ret.priority = "high"
       \/ ret.score = 69 * 10 /\ ret.priority = "medium"

\* the topics of a list with the id x
WithId(ts, x) == {i \in 1..Len(ts) : ts[i].id = x}

\* the dict cannot be scored: its title is no string or its primaryData is
\* None
Unscorable(topic) ==
    \/ ~IsText(Get(topic, "title", PyText(<<>>)))
    \/ Get(topic, "primaryData", PyDict(<<>>)) = PyNone

\* batch_score_topics returned every topic it was given exactly once
ReturnsEveryTopicOnce ==
    /\ Len(ret) = Len(call.topics)
    /\ \A i \in 1..Len(call.topics) :
          Cardinality(WithId(ret, call.topics[i].id)) = Cardinality(WithId(call.topics, call.topics[i].id))

\* C15 as stated: no scoring error is propagated; when any step of scoring
\* fails, the time-decay step included, the topic gets 50 and "medium";
\* batch_score_topics returns every input topic exactly once.
C15_AsClaimed ==
    /\ ScoredContent =>
          /\ ret # Raised
          /\ (~WellTyped \/ TimeUnreadable) => (ret.score = 50 * 10 /\ ret.priority = "medium")
    /\ ScoredBatch => ReturnsEveryTopicOnce

\* C15, amended: no scoring error is propagated.  When content analysis,
\* the price bonus or the coin multiplier fails, the topic gets score 50 and
\* priority "medium"; a published time that cannot be read is absorbed by
\* the time-decay step, which answers 1.0, and the topic is scored as
\* usual.  batch_score_topics returns every input topic exactly once, a
\* topic that could not be scored with 50 and "medium".
C15_ErrorsDefaultAndNoTopicIsLost ==
    /\ ScoredContent =>
          /\ ret # Raised
          /\ ~WellTyped => (ret.score = 50 * 10 /\ ret.priority = "medium" /\ ret.error)
          /\ (WellTyped /\ TimeUnreadable) => (~ret.error /\ ret.breakdown.time_multiplier = 10)
    /\ ScoredBatch =>
          /\ ReturnsEveryTopicOnce
          /\ \A i \in 1..Len(ret) : Unscorable(ret[i]) => (ret[i].score = 50 * 10 /\ ret[i].priority = "medium")

\* a batch of three with a topic that cannot be scored came back whole
C15_Witness ==
    /\ ScoredBatch
    /\ Len(ret) = 3
    /\ \E i \in 1..Len(ret) : Unscorable(ret[i]) /\ ret[i].score = 50 * 10
    /\ \E i \in 1..Len(ret) : ~Unscorable(ret[i]) /\ ret[i].score > 50 * 10

(***************************************************************************)
(* Properties of the collectors and the generator (C16, C17).              *)
(***************************************************************************)
\* a collection cycle has just run
Cycled == call.op = "collection_cycle"

\* generate_all_topics has just run
Generated == call.op = "generate_all_topics"

\* the fetch of the generator gave no data: the client returned None or the
\* future timed out
NoData(fetch) == "data" \notin DOMAIN fetch

\* the first part of the id of a generated topic
Scenario(topic) == Head(topic.id)

\* the scenarios that draw on each source of the generator
ScenariosOfMarket == {"price_movement", "psychological_level"}
ScenariosOfTrending == {"trending"}
ScenariosOfGlobal == {"btc_dominance"}
ScenariosOfNews == {"news"}

\* ret holds a topic of one of the scenarios
Contributes(scenarios) == \E k \in 1..Len(ret) : Scenario(ret[k]) \in scenarios

\* the data of the market fetch cannot be read (a coin without id), which
\* sends generate_all_topics to its fallback topics
MarketUnreadable ==
    /\ ~NoData(call.fetch_market)
    /\ \E k \in 1..Len(call.fetch_market.data.list) : CoinKeysMissing(call.fetch_market.data.list[k])

\* the feeds that did not raise
Answering(feeds) == SelectSeq(feeds, LAMBDA feed : ~FeedRaises(feed))

\* every topic of the list is retained, or was passed over as a duplicate of
\* a retained one
AllAdded(lst) == \A k \in 1..Len(lst) : _is_duplicate(processed_titles, lst[k])

\* C16: A collector or source fetch that fails or times out contributes zero
\* topics to the collection cycle and does not prevent the topics of the
\* other collectors and sources of the same cycle from being collected and
\* added.  For a cycle of get_topics: the RSS topics are those of the feeds
\* that answered, a failed price or trending request leaves no topic of its
\* kind, an answering one leaves its topics, and all collected topics are
\* added.  For generate_all_topics on readable data: a source without data
\* leaves no topic of its scenarios, and a source with data leaves one.
C16_FailingSourceContributesNothingAndBlocksNothing ==
    /\ Cycled =>
          /\ ret.rss = RSSFeedCollector_collect(Answering(call.feeds), now)
          /\ FetchFailed(call.fetch_movers) => \A k \in 1..Len(ret.price) : ret.price[k].source # "price_api"
          /\ FetchFailed(call.fetch_trending) => \A k \in 1..Len(ret.price) : ret.price[k].source # "social_media"
          /\ ~FetchFailed(call.fetch_movers) => \E k \in 1..Len(ret.price) : ret.price[k].source = "price_api"
          /\ AllAdded(ret.rss)
          /\ AllAdded(ret.price)
    /\ (Generated /\ ~MarketUnreadable) =>
          /\ NoData(call.fetch_market) => ~Contributes(ScenariosOfMarket)
          /\ NoData(call.fetch_trending) => ~Contributes(ScenariosOfTrending)
          /\ NoData(call.fetch_global) => ~Contributes(ScenariosOfGlobal)
          /\ "raises" \in DOMAIN call.fetch_news => ~Contributes(ScenariosOfNews)
          /\ (~NoData(call.fetch_market) /\ call.fetch_market.data.list # <<>>) => Contributes(ScenariosOfMarket)
          /\ ~NoData(call.fetch_trending) => Contributes(ScenariosOfTrending)
          /\ ~NoData(call.fetch_global) => Contributes(ScenariosOfGlobal)
          /\ ("articles" \in DOMAIN call.fetch_news /\ call.fetch_news.articles # <<>>) => Contributes(ScenariosOfNews)
          /\ Contributes({"daily_report"})

\* the part of C16 about one cycle of get_topics and its two collectors
C16_CollectorsPart ==
    Cycled =>
      /\ ret.rss = RSSFeedCollector_collect(Answering(call.feeds), now)
      /\ FetchFailed(call.fetch_movers) => \A k \in 1..Len(ret.price) : ret.price[k].source # "price_api"
      /\ FetchFailed(call.fetch_trending) => \A k \in 1..Len(ret.price) : ret.price[k].source # "social_media"
      /\ AllAdded(ret.rss)
      /\ AllAdded(ret.price)

\* the market fetch of the generator gave no data while the global fetch did
C16_MarketFailedGlobalAnswered ==
    Generated /\ NoData(call.fetch_market) /\ ~NoData(call.fetch_global)

\* an entry whose title is missing, None or empty
Untitled(entry) == Falsy(Get(entry, "title", PyText(<<>>)))

\* a feed of the cycle answered with an untitled entry
UntitledDelivered ==
    \E f \in 1..Len(call.feeds) :
        /\ ~FeedRaises(call.feeds[f])
        /\ \E e \in 1..Len(call.feeds[f].entries) : Untitled(call.feeds[f].entries[e])

\* the titled entries of the answering feeds, the first ten of each
TitledEntries(feeds) ==
    IF feeds = <<>> THEN 0
    ELSE LET Count[k \in 0..Len(feeds)] ==
               IF k = 0 THEN 0
               ELSE Count[k - 1]
                    + (IF FeedRaises(feeds[k]) THEN 0
                       ELSE Cardinality({e \in 1..Min(10, Len(feeds[k].entries)) :
                                           /\ ~Untitled(feeds[k].entries[e])
                                           /\ IsText(feeds[k].entries[e].title)}))
         IN Count[Len(feeds)]

NoTitleTwice ==
    \A i, j \in 1..Len(topics) : i # j => Lower(topics[i].title) # Lower(topics[j].title)

\* every call of add_topics has returned
AllReturned == \A w \in Writers : writers[w].pc = "idle"

\* C19: When two add_topics calls run together on one TopicManager, with
\* steps of one allowed between the duplicate check and the append and
\* registration of the other, a state is reachable in which two topics with
\* the same case-folded title are both retained; while no two calls have
\* been in flight together, no such state is reachable.
C19_OneWriterRetainsNoTitleTwice == ~overlapped => NoTitleTwice

\* both calls have returned, they overlapped, and a title is retained twice
C19_Witness == overlapped /\ AllReturned /\ ~NoTitleTwice

\* the invocations inside the job body
InBody == {j \in Jobs : jobs[j].pc # "idle"}

\* C20: At most one execution of the collection job body is in progress at
\* any time, and is_collecting is set exactly while one is; a
\* _collect_topics_job invocation that starts while is_collecting is set
\* returns at once, issues no request, and leaves collection_count,
\* error_count, last_collection_time and is_collecting as they are.
C20_OneBodyAndSkippingChangesNothing ==
    [][/\ Cardinality(InBody') <= 1
       /\ is_collecting' = (InBody' # {})
       /\ (call'.op = "_collect_topics_job" /\ is_collecting) =>
             /\ call'.skipped
             /\ UNCHANGED <<is_collecting, collection_count, error_count, last_collection_time, jobs>>]_vars

\* an invocation was skipped while another was in the job body
C20_Witness ==
    /\ call.op = "_collect_topics_job"
    /\ call.skipped
    /\ is_collecting
    /\ Cardinality(InBody) = 1
    /\ collection_count + error_count > 0

\* C29: Every non-skipped execution of the collection job ends with
\* is_collecting reset to false, whether the request succeeded, returned a
\* non-200 status, timed out, failed to connect or raised any other
\* exception, and it increments exactly one of collection_count and
\* error_count (at the end of its request, and at no other step); the flag is
\* set only while an execution is in its body, and an execution that has
\* set it ends, so that a later trigger is not skipped forever.
C29_EveryExecutionEndsAndClearsTheFlag ==
    /\ [][/\ \A j \in Jobs :
               (jobs[j].pc # "idle" /\ jobs'[j].pc = "idle") => ~is_collecting'
          /\ \A j \in Jobs :
               (jobs[j].pc = "posting" /\ jobs'[j].pc # "posting") =>
                   \/ collection_count' = collection_count + 1 /\ error_count' = error_count
                   \/ error_count' = error_count + 1 /\ collection_count' = collection_count
          /\ (\A j \in Jobs : jobs[j].pc = "posting" => jobs'[j].pc = "posting") =>
                   (collection_count' = collection_count /\ error_count' = error_count)]_vars
    /\ [](is_collecting => InBody # {})
    /\ \A j \in Jobs : (jobs[j].pc # "idle") ~> (jobs[j].pc = "idle" /\ ~is_collecting)

\* after an execution that ended in an error, a later trigger has entered
\* the body
C29_Witness ==
    /\ call.op = "_collect_topics_job"
    /\ ~call.skipped
    /\ error_count = 1
    /\ collection_count = 0
    /\ is_collecting

(***************************************************************************)
(* Properties of the store under ties, rejections and frames (C21 - C28).  *)
(***************************************************************************)
\* the place of a retained topic in the store (retained topics differ in
\* their titles)
PlaceOf(t) == CHOOSE i \in 1..Len(topics) : topics[i] = t

\* C21: Among retained topics with equal scores, get_top_topics returns them
\* in insertion order, so its result is determined by the store, count and
\* minScore: the result holds retained topics only, none twice, and of two
\* topics in it the one with the higher score comes first, and with equal
\* scores the one retained first.
C21_TiesComeInInsertionOrder ==
    call.op = "get_top_topics" =>
        /\ \A i \in 1..Len(ret) : \E k \in 1..Len(topics) : topics[k] = ret[i]
        /\ \A i, j \in 1..Len(ret) :
              i < j => \/ ret[i].score > ret[j].score
                       \/ ret[i].score = ret[j].score /\ PlaceOf(ret[i]) < PlaceOf(ret[j])

\* two topics with one score are both returned
C21_Witness ==
    /\ call.op = "get_top_topics"
    /\ Len(ret) = 2
    /\ ret[1].score = ret[2].score
    /\ ret[1] = topics[1] /\ ret[2] = topics[2]

\* candidate i of the list `batch` resembles a title that is already in the
\* set `seen`
KnownTo(seen, batch, i) ==
    \/ \E s \in seen : SameFolded(batch[i].title, s)
    \/ \E s \in seen : JaccardAbove(batch[i].title, s)

\* C22: When add_topics rejects a candidate as a duplicate, the first-seen
\* topic is kept and nothing is merged: the retained topics keep every field
\* and their entries in the title history, no seen title is lost, the
\* rejected candidate is handed back as it was given (its score is not
\* recomputed), and a call that rejects all its candidates changes nothing
\* of the store.  A candidate counts as rejected when its title resembles
\* (same folded title, or word sets above 0.8) a title seen before the call
\* or the first candidate, when that one is not rejected.
C22_RejectionChangesNothing ==
    [][call'.op = "add_topics" =>
         LET batch == call'.batch
             Rejected(i) == \/ KnownTo(processed_titles, batch, i)
                            \/ i > 1 /\ ~KnownTo(processed_titles, batch, 1)
                                     /\ Resembles(batch[1].title, batch[i].title)
         IN /\ SubSeq(topics', 1, Len(topics)) = topics
            /\ processed_titles \subseteq processed_titles'
            /\ \A k \in DOMAIN topic_history :
                  k \in DOMAIN topic_history' /\ topic_history'[k] = topic_history[k]
            /\ \A i \in 1..Len(batch) : ret'[i] = batch[i] \/ ~Rejected(i)
            /\ \/ Len(topics') = Len(topics)
               \/ Len(topics') - Len(topics) <= Cardinality({i \in 1..Len(batch) : ~Rejected(i)})
            /\ \/ /\ topics' = topics
                  /\ processed_titles' = processed_titles
                  /\ topic_history' = topic_history
               \/ \E i \in 1..Len(batch) : ~Rejected(i)]_vars

\* the candidate of a call was rejected, and it has another collected_at
\* than the title history holds for its title
C22_Witness ==
    /\ Added
    /\ Len(call.batch) = 1
    /\ Len(topics) = call.len_before
    /\ ret = call.batch
    /\ Lower(call.batch[1].title) \in DOMAIN topic_history
    /\ topic_history[Lower(call.batch[1].title)] # call.batch[1].collected_at

\* C23: add_topics and the Strategy A scorer never modify the priority or
\* the collected_at of any topic: the topics retained before the call keep
\* both, every candidate is handed back with both as they were given,
\* retained or rejected, and a topic the call retains is a candidate of the
\* call with nothing but its score assigned.
C23_PriorityAndCollectedAtAreKept ==
    [][call'.op = "add_topics" =>
         LET batch == call'.batch
         IN /\ \A k \in 1..Len(topics) :
                  /\ topics'[k].priority = topics[k].priority
                  /\ topics'[k].collected_at = topics[k].collected_at
            /\ Len(ret') = Len(batch)
            /\ \A i \in 1..Len(batch) :
                  /\ ret'[i].priority = batch[i].priority
                  /\ ret'[i].collected_at = batch[i].collected_at
            /\ \A k \in (Len(topics) + 1)..Len(topics') :
                  \E i \in 1..Len(batch) : topics'[k] = ret'[i] /\ SameButScore(topics'[k], batch[i])]_vars

\* of two candidates one was retained and one rejected; the retained one is
\* of low priority and was collected before the call
C23_Witness ==
    /\ Added
    /\ Len(call.batch) = 2
    /\ Len(topics) = call.len_before + 1
    /\ Kept.priority = "LOW"
    /\ Kept.collected_at < now
    /\ Kept.score # call.batch[1].score

\* the title of the candidate of the last call has no words
DegenerateGiven == Added /\ Len(call.batch) = 1 /\ Words(Lower(Given.title)) = {}

\* C24: A degenerate title comparison defaults to "not a duplicate": a
\* candidate whose title is empty or has an empty token set is never
\* rejected as a duplicate, including when a topic with an empty title is
\* already retained.
C24_DegenerateTitleIsNeverRejected ==
    DegenerateGiven => Len(topics) = call.len_before + 1

\* a candidate with a title without words is rejected only when its folded
\* title is itself among the retained titles
C24_RejectedOnlyWhenTheSameTitleIsRetained ==
    (DegenerateGiven /\ Len(topics) = call.len_before)
        => \E k \in 1..Len(topics) : Lower(topics[k].title) = Lower(Given.title)

\* the keyword limit of the data model
MaxKeywords == 5

\* C25: Every topic that the collectors produce and the store retains has at
\* most 5 keywords, for every source kind (feed entries, price-movement
\* topics, hybrid analysis topics, trending topics).
C25_AtMostFiveKeywords ==
    /\ \A k \in 1..Len(topics) : Len(topics[k].keywords) <= MaxKeywords
    /\ Cycled => /\ \A k \in 1..Len(ret.rss) : Len(ret.rss[k].keywords) <= MaxKeywords
                 /\ \A k \in 1..Len(ret.price) : Len(ret.price[k].keywords) <= MaxKeywords

\* the topics of feed entries and the trending topics keep to the limit
C25_FeedAndTrendingPart ==
    /\ \A k \in 1..Len(topics) :
          topics[k].source \in {"rss_feed", "social_media"} => Len(topics[k].keywords) <= MaxKeywords
    /\ Cycled => \A k \in 1..Len(ret.rss) : Len(ret.rss[k].keywords) <= MaxKeywords

\* the case-folded titles of the retained topics
RetainedTitles == { Lower(topics[k].title) : k \in 1..Len(topics) }

\* C26: After any sequence of add_topics calls by a single writer, the
\* seen-title set processed_titles equals exactly the set of case-folded
\* titles of the retained topics, the keys of topic_history equal the same
\* set, and the number of retained topics equals the size of that set.
C26_SeenTitlesAreTheRetainedTitles ==
    /\ processed_titles = RetainedTitles
    /\ DOMAIN topic_history = RetainedTitles
    /\ Len(topics) = Cardinality(RetainedTitles)

\* a call has retained one of its two candidates and rejected the other; a
\* retained title has capitals
C26_Witness ==
    /\ Added
    /\ Len(call.batch) = 2
    /\ Len(topics) = call.len_before + 1
    /\ \E k \in 1..Len(topics) : Lower(topics[k].title) # topics[k].title

\* ten times basePriority + 2 x |keywords| + 5 x |coins| + 0.1 x signal, in
\* score units: what the score is when the multiplier is 1.0
TenTimesUndecayed(t) == 10 * BasePriority(t.priority) * ScoreScale + TenTimesBonus(t)

\* C28 as stated: the time-decay multiplier lies in [0.3, 1.0], so a stored
\* score never exceeds basePriority + 2 x |keywords| + 5 x |coins| + 0.1 x
\* signal and is never negative, also for a topic whose collected_at is later
\* than the clock reading at insertion.
C28_ScoreIsWithinTheUndecayedBound ==
    AddedOne => (Kept.score >= 0 /\ 10 * Kept.score <= TenTimesUndecayed(Given))

\* C28 (amended): a stored score is never negative and never below 0.3 x
\* basePriority + the bonuses; it does not exceed basePriority + the bonuses
\* when collected_at is not later than the clock at insertion; when
\* collected_at is later by L, the multiplier is 1 + L/72h and the score
\* exceeds that bound by basePriority x L/72h.
C28_BoundHoldsFromAgeZeroOn ==
    AddedOne =>
        /\ Kept.score >= 0
        /\ 10 * Kept.score >= 3 * BasePriority(Given.priority) * ScoreScale + TenTimesBonus(Given)
        /\ AgeAtInsertion >= 0 => 10 * Kept.score <= TenTimesUndecayed(Given)
        /\ AgeAtInsertion < 0 =>
              10 * Kept.score = TenTimesUndecayed(Given) + 100 * BasePriority(Given.priority) * (0 - AgeAtInsertion)

\* a topic collected later than the clock reads is stored above the bound
C28_Witness ==
    /\ AddedOne
    /\ AgeAtInsertion < 0
    /\ Given.keywords # <<>> /\ Given.coins # <<>>
    /\ 10 * Kept.score > TenTimesUndecayed(Given)

(***************************************************************************)
(* Properties of the management interface (C27).                           *)
(***************************************************************************)
\* the deleted titles that add_topics had registered
DeletedRegistered == { d \in deleted : Lower(d) \in processed_titles }

\* C27 as stated: after delete_topic has removed a topic, its title stays in
\* the seen-title set, a later add_topics of a topic with the same or a
\* similar title is rejected, and no retained topic has the deleted title
\* again.
C27_DeletedTitleIsNeverStoredAgain ==
    /\ \A d \in deleted : Lower(d) \in processed_titles
    /\ \A d \in deleted : \A k \in 1..Len(topics) : topics[k].title # d
    /\ (Added /\ \E d \in deleted : Resembles(Given.title, d)) => Len(topics) = call.len_before

\* C27 (amended): delete_topic leaves the seen-title set and the title
\* history as they are, and no step removes a seen title; so for a deleted
\* title that add_topics had registered, a later add_topics of a topic with
\* the same or a similar title is rejected, and add_topics never retains a
\* topic under that title again.
C27_AddTopicsNeverStoresARegisteredDeletedTitle ==
    [][/\ processed_titles \subseteq processed_titles'
       /\ call'.op = "delete_topic" =>
             /\ processed_titles' = processed_titles
             /\ topic_history' = topic_history
             /\ Len(topics') >= Len(topics) - 1
       /\ call'.op = "add_topics" =>
             /\ (\E d \in DeletedRegistered : Resembles(call'.batch[1].title, d)) => topics' = topics
             /\ \A k \in (Len(topics) + 1)..Len(topics') :
                   \A d \in DeletedRegistered : Lower(topics'[k].title) # Lower(d)]_vars

\* a topic with the title of a deleted topic was handed to add_topics and
\* rejected, while no retained topic has that title
C27_Witness ==
    /\ Added
    /\ Given.title \in DeletedRegistered
    /\ Len(topics) = call.len_before
    /\ \A k \in 1..Len(topics) : Lower(topics[k].title) # Lower(Given.title)

(***************************************************************************)
(* Properties of the article quota (C30).                                  *)
(***************************************************************************)
\* the entries of generation_history whose timestamp lies in the clock hour,
\* and on the calendar day, of the clock reading `clock`
InHourOf(clock) ==
    { k \in 1..Len(generation_history) :
        /\ DateOf(generation_history[k].timestamp) = DateOf(clock)
        /\ HourOf(generation_history[k].timestamp) = HourOf(clock) }
OnDayOf(clock) ==
    { k \in 1..Len(generation_history) : DateOf(generation_history[k].timestamp) = DateOf(clock) }

\* no title has two entries in generation_history
NoTitleCountedTwice ==
    \A j, k \in 1..Len(generation_history) :
        j # k => generation_history[j].article.title # generation_history[k].article.title

\* a topic whose generation failed in the last run is not marked processed
\* and has no entry in generation_history
FailedIsNotCounted ==
    call.op = "generate_articles" =>
        \A t \in call.failed :
            /\ t \notin processed_topics
            /\ \A k \in 1..Len(generation_history) : generation_history[k].article.title # t

\* C30: Across any sequence of generate_articles runs, the number of
\* articles generated within one clock hour never exceeds
\* max_articles_per_hour and within one calendar day never exceeds
\* max_articles_per_day, no topic title has an article generated and counted
\* for it more than once, and a topic whose generation fails is neither
\* counted against the quota nor marked processed.
C30_QuotaIsNeverExceeded ==
    /\ \A k \in 1..Len(generation_history) :
          /\ Cardinality(InHourOf(generation_history[k].timestamp)) <= max_articles_per_hour
          /\ Cardinality(OnDayOf(generation_history[k].timestamp)) <= max_articles_per_day
    /\ NoTitleCountedTwice
    /\ FailedIsNotCounted

\* the counters stay within the limits, every counted article is marked and
\* counted once, and a failed generation leaves no trace
C30_CountersPart ==
    /\ hourly_count <= max_articles_per_hour
    /\ daily_count <= max_articles_per_day
    /\ processed_topics = { generation_history[k].article.title : k \in 1..Len(generation_history) }
    /\ NoTitleCountedTwice
    /\ FailedIsNotCounted

====
